---------------------------- MODULE HostUpgrade ----------------------------
(***************************************************************************)
(* The batch host-upgrade orchestrator (server/host_upgrade.py).           *)
(*                                                                         *)
(* An admin creates a job over some hosts of ONE cluster, starts it, may   *)
(* abort it, and answers "reboot" or "skip" for each host.  A runner (an   *)
(* asyncio task, _run_job) sweeps the hosts one after the other: it drains *)
(* the HA services, evacuates or shuts down the guests, upgrades, waits    *)
(* for the admin, reboots, and brings the guests back.  Job and host rows  *)
(* are in SQLite and survive a restart of the daemon; abort flags, reboot  *)
(* decisions and the runners' local variables do not.                      *)
(*                                                                         *)
(* One action is what one task does between two awaits whose order other   *)
(* tasks, the admin, the cluster or a restart can tell apart.  Which       *)
(* misfortunes the environment produces is the constant Faults.            *)
(*                                                                         *)
(* An operator named X_Mutant is X with a plausible mistake in it.  It is  *)
(* not part of the specification: it documents a change of the code that   *)
(* the properties at the end of the module catch.                          *)
(***************************************************************************)
EXTENDS Integers, Sequences, FiniteSets

CONSTANTS
  Jobs,         \* host_upgrade_jobs rows that may be created, one cluster
  Copies,       \* how many runners of one job may be alive: 1..n
  Requests,     \* start requests that may be open at the same time
  Nodes,        \* the cluster's nodes
  Guests,       \* its VMs and containers
  HaGuests,     \* those the HA manager owns
  Home,         \* [Guests -> Nodes]: where each guest lives
  CephCluster,  \* whether the cluster runs Ceph
  JobOptions,   \* what create_job may be asked for
  Faults,       \* which of AllFaults the environment produces
  MaxRestarts,  \* bound: restarts of the daemon
  NoNode, NoJob

AllFaults ==
  { "race",        \* a start request arrives while another start is under way
    "stale",       \* the poll cache lags behind the cluster
    "late",        \* a task given up on after its timeout completes later
    "lostreply",   \* an SSH command takes effect but its reply is lost
    "slowdown" }   \* a node told to reboot still answers while it goes down

JobStatus  == {"absent", "pending", "running", "done", "failed", "aborted"}
Terminal   == {"done", "failed", "skipped", "aborted"}
InFlight   == {"evacuating", "updating", "awaiting_reboot", "rebooting", "restoring"}
NodeStatus == {"absent", "queued", "preflight"} \cup InFlight \cup Terminal
Choices    == {"none", "reboot", "skip"}
OptionType == [ mode    : {"auto", "manual", "in_place"},
                back    : BOOLEAN,
                ceph    : BOOLEAN,
                exclude : SUBSET Nodes,
                manual  : [Nodes -> Nodes \cup {NoNode}],
                hosts   : Seq(Nodes) ]

ASSUME ConstantsOK ==
  /\ MaxRestarts \in Nat
  /\ Copies \subseteq Nat /\ 1 \in Copies
  /\ HaGuests \subseteq Guests
  /\ Home \in [Guests -> Nodes]
  /\ CephCluster \in BOOLEAN
  /\ JobOptions \subseteq OptionType
  /\ Faults \subseteq AllFaults
  /\ NoNode \notin Nodes
  /\ NoJob \notin Jobs

Runners == Jobs \X Copies

VARIABLES
  \* SQLite
  jobs,       \* [Jobs -> JobStatus]
  opts,       \* [Jobs -> OptionType], fixed by create_job
  rows,       \* [Jobs -> [Nodes -> NodeStatus]]
  \* the daemon's memory
  aborts,     \* _JobControl.aborts
  decision,   \* _JobControl.reboot_decisions
  starting,   \* start requests that have passed their checks
  runner,     \* the _run_job tasks and their locals
  restarts,   \* how often the daemon has restarted (bounded)
  \* the Proxmox cluster
  maint,      \* nodes in HA maintenance mode
  noout,      \* the Ceph noout flag
  clean,      \* every placement group active+clean
  power,      \* [Nodes -> {"up", "restarting", "down"}]
  where,      \* [Guests -> Nodes]
  on,         \* running guests
  late,       \* tasks the daemon has given up on
  seen,       \* the poll cache: where each running guest was last seen
  toldMaint,  \* nodes the operator was told are stuck in maintenance
  toldNoout   \* the operator was told that noout could not be unset

db      == <<jobs, opts, rows>>
memory  == <<aborts, decision, starting>>
ceph    == <<noout, clean, toldNoout>>
ha      == <<maint, toldMaint>>
placing == <<where, on, late>>
vars    == <<db, memory, runner, restarts, ceph, ha, placing, power, seen>>

Phases == { "idle", "spawned", "read", "marked", "loop", "preflight", "enter_maint", "drain",
            "evacuate", "moving", "updating", "awaiting", "reboot", "polling",
            "leave_maint", "starting", "restoring", "ceph", "cleanup", "finish" }
\* The phases inside _run_single_host's try block: an exception runs its finally.
HostPhases == Phases \ {"idle", "spawned", "read", "marked", "loop", "cleanup", "finish"}

RunnerType ==
  [ pc      : Phases,
    snap    : [Nodes -> NodeStatus],        \* the rows as _run_job read them
    todo    : Seq(Nodes),                   \* hosts its loop has not reached
    gate    : BOOLEAN,                      \* ceph_gate
    host    : Nodes \cup {NoNode},          \* the host being upgraded
    targets : SUBSET Nodes,
    has     : SUBSET Guests,                \* ha_svcs
    plan    : [Guests -> Nodes \cup {NoNode}],
    pending : SUBSET Guests,                \* guests its current loop has left
    moved   : SUBSET Guests,                \* evac or stopped entries with ok=True
    bad     : BOOLEAN,                      \* some entry has ok=False
    choice  : Choices,
    haMaint : BOOLEAN,                      \* ha_maint
    nooutOn : BOOLEAN,                      \* noout_active
    raised  : BOOLEAN ]                     \* an exception is propagating

NoPlan   == [g \in Guests |-> NoNode]
NoRows   == [n \in Nodes |-> "absent"]
NoOption == [ mode |-> "auto", back |-> TRUE, ceph |-> TRUE, exclude |-> {},
              manual |-> [n \in Nodes |-> NoNode], hosts |-> <<>> ]

\* The locals a runner starts a host with.
Fresh(pc, snap, todo, gate) ==
  [ pc |-> pc, snap |-> snap, todo |-> todo, gate |-> gate, host |-> NoNode,
    targets |-> {}, has |-> {}, plan |-> NoPlan, pending |-> {}, moved |-> {},
    bad |-> FALSE, choice |-> "none", haMaint |-> FALSE, nooutOn |-> FALSE,
    raised |-> FALSE ]
IdleRunner    == Fresh("idle", NoRows, <<>>, FALSE)
SpawnedRunner == Fresh("spawned", NoRows, <<>>, FALSE)

Init ==
  /\ jobs = [j \in Jobs |-> "absent"]
  /\ opts = [j \in Jobs |-> NoOption]
  /\ rows = [j \in Jobs |-> NoRows]
  /\ aborts = {}
  /\ decision = [j \in Jobs |-> [n \in Nodes |-> "none"]]
  /\ starting = [q \in Requests |-> NoJob]
  /\ runner = [r \in Runners |-> IdleRunner]
  /\ restarts = 0
  /\ maint = {} /\ toldMaint = {}
  /\ noout = FALSE /\ toldNoout = FALSE /\ clean = TRUE
  /\ power = [n \in Nodes |-> "up"]
  /\ where = Home /\ on = Guests /\ late = {}
  /\ seen = Home

-----------------------------------------------------------------------------
(* What the handlers and the runner read.                                  *)

JobOf(r)  == r[1]
Opt(r)    == opts[JobOf(r)]
At(r, pc) == runner[r].pc = pc
Host(r)   == runner[r].host
InPlace(r) == Opt(r).mode = "in_place"
Aborted(r) == JobOf(r) \in aborts

\* _eligible_targets, and the manual target, for host h.  A stale cache calls any
\* node online, or none (it is empty until the first poll).
Targets(o, h) ==
  CASE o.mode = "in_place" -> {{}}
    [] o.mode = "manual"   -> {{o.manual[h]} \ {NoNode}}
    [] OTHER -> LET siblings == Nodes \ (o.exclude \cup {h}) IN
                  IF "stale" \in Faults THEN SUBSET siblings
                  ELSE {{n \in siblings : power[n] = "up"}}

\* _vms_on_node reads the poll cache.
VmsOnNode(h) ==
  IF "stale" \in Faults THEN {g \in Guests : seen[g] = h}
  ELSE {g \in on : where[g] = h}

\* _ha_services_on reads the HA manager.
HaServicesOn(h) == {g \in HaGuests : where[g] = h}

\* Variant: in-flight hosts are resumed like any other.
Disposition_Mutant(s) == IF s \in Terminal THEN "skip" ELSE "run"

\* _resume_disposition.
Disposition(s) == IF s \in Terminal THEN "skip" ELSE IF s \in InFlight THEN "fail" ELSE "run"

\* A start is under way until its runner has marked the job running.
StartUnderWay ==
  \/ \E q \in Requests : starting[q] # NoJob
  \/ \E r \in Runners : runner[r].pc \in {"spawned", "read"}

\* The end of the sweep's bookkeeping: the label of the job.
RowsIn(j, S) == {n \in Nodes : rows[j][n] \in S}
\* Variants: without the look at unsettled hosts; with a label of its own for a
\* sweep that skipped every host.
FinalLabel_Mutant(j) ==
  IF RowsIn(j, {"failed"}) # {} /\ RowsIn(j, {"done"}) = {} THEN "failed" ELSE "done"
FinalLabel_Mutant2(j) == IF RowsIn(j, {"failed", "done"}) = {} THEN "skipped" ELSE "done"

FinalLabel(j) ==
  IF j \in aborts /\ RowsIn(j, NodeStatus \ (Terminal \cup {"absent"})) # {} THEN "aborted"
  ELSE IF RowsIn(j, {"failed"}) # {} /\ RowsIn(j, {"done"}) = {} THEN "failed"
  ELSE "done"

SetRow(r, s) == rows' = [rows EXCEPT ![JobOf(r)][Host(r)] = s]
Goto(r, pc)  == runner' = [runner EXCEPT ![r].pc = pc]

\* Every way a host ends early: the row says failed, and finally runs next.
FailHost(r) ==
  /\ SetRow(r, "failed") /\ Goto(r, "cleanup")
  /\ UNCHANGED <<jobs, opts, memory, restarts, ceph, ha, placing, power, seen>>

\* _ceph_set_noout is best effort: a call that fails is logged and ignored.
TryUnsetNoout ==
  \/ noout' = FALSE /\ UNCHANGED toldNoout
  \/ UNCHANGED noout /\ toldNoout' = TRUE

-----------------------------------------------------------------------------
(* The REST handlers.                                                      *)

\* create_job refuses an empty list of hosts and one that names a host twice,
\* and turns migrate_back off for an in-place job.
CreateJob(j, o) ==
  /\ jobs[j] = "absent"
  /\ o.hosts # <<>>
  /\ \A i, k \in DOMAIN o.hosts : o.hosts[i] = o.hosts[k] => i = k
  /\ jobs' = [jobs EXCEPT ![j] = "pending"]
  /\ opts' = [opts EXCEPT ![j] = [o EXCEPT !.back = @ /\ o.mode # "in_place"]]
  /\ rows' = [rows EXCEPT ![j] = [n \in Nodes |->
                IF \E i \in DOMAIN o.hosts : o.hosts[i] = n THEN "queued" ELSE "absent"]]
  /\ UNCHANGED <<memory, runner, restarts, ceph, ha, placing, power, seen>>

\* Variant: without the busy check.
StartCheck_Mutant(q, j) ==
  /\ starting[q] = NoJob /\ jobs[j] = "pending"
  /\ "race" \in Faults \/ ~StartUnderWay
  /\ starting' = [starting EXCEPT ![q] = j]
  /\ UNCHANGED <<db, aborts, decision, runner, restarts, ceph, ha, placing, power, seen>>

\* start_job up to its await of the audit log: the job is pending and no other
\* job of the cluster is running.
StartCheck(q, j) ==
  /\ starting[q] = NoJob
  /\ jobs[j] = "pending"
  /\ \A other \in Jobs \ {j} : jobs[other] # "running"
  /\ "race" \in Faults \/ ~StartUnderWay
  /\ starting' = [starting EXCEPT ![q] = j]
  /\ UNCHANGED <<db, aborts, decision, runner, restarts, ceph, ha, placing, power, seen>>

\* start_job after the await: nothing is checked again.
StartSpawn(q, r) ==
  /\ starting[q] = JobOf(r)
  /\ At(r, "idle")
  /\ starting' = [starting EXCEPT ![q] = NoJob]
  /\ runner' = [runner EXCEPT ![r] = SpawnedRunner]
  /\ UNCHANGED <<db, aborts, decision, restarts, ceph, ha, placing, power, seen>>

AbortJob(j) ==
  /\ jobs[j] # "absent"
  /\ aborts' = aborts \cup {j}
  /\ UNCHANGED <<db, decision, starting, runner, restarts, ceph, ha, placing, power, seen>>

ConfirmReboot(j, n, choice) ==
  /\ rows[j][n] = "awaiting_reboot"
  /\ decision' = [decision EXCEPT ![j][n] = choice]
  /\ UNCHANGED <<db, aborts, starting, runner, restarts, ceph, ha, placing, power, seen>>

-----------------------------------------------------------------------------
(* _run_job: its preamble, its loop over the hosts, and its end.           *)

ReadJob(r) ==
  /\ At(r, "spawned")
  /\ runner' = [runner EXCEPT ![r] =
       IF jobs[JobOf(r)] \in {"pending", "running"}
       THEN Fresh("read", rows[JobOf(r)], Opt(r).hosts, FALSE)
       ELSE IdleRunner]
  /\ UNCHANGED <<db, memory, restarts, ceph, ha, placing, power, seen>>

MarkRunning(r) ==
  /\ At(r, "read")
  /\ jobs' = [jobs EXCEPT ![JobOf(r)] = "running"]
  /\ Goto(r, "marked")
  /\ UNCHANGED <<opts, rows, memory, restarts, ceph, ha, placing, power, seen>>

\* The cluster was removed from the configuration.
ClusterMissing(r) ==
  /\ At(r, "marked")
  /\ jobs' = [jobs EXCEPT ![JobOf(r)] = "aborted"]
  /\ runner' = [runner EXCEPT ![r] = IdleRunner]
  /\ UNCHANGED <<opts, rows, memory, restarts, ceph, ha, placing, power, seen>>

\* The gate is on only where Ceph answers a status request at this moment.
DetectCeph(r) ==
  /\ At(r, "marked")
  /\ \E gate \in {FALSE, CephCluster /\ Opt(r).ceph} :
       runner' = [runner EXCEPT ![r].pc = "loop", ![r].gate = gate]
  /\ UNCHANGED <<db, memory, restarts, ceph, ha, placing, power, seen>>

LeaveLoop(r) ==
  /\ At(r, "loop")
  /\ runner[r].todo = <<>> \/ Aborted(r)
  /\ Goto(r, "finish")
  /\ UNCHANGED <<db, memory, restarts, ceph, ha, placing, power, seen>>

\* The loop's next host, which it treats as the row it read says.
NextIs(r, disposition) ==
  /\ At(r, "loop") /\ ~Aborted(r)
  /\ runner[r].todo # <<>>
  /\ Disposition(runner[r].snap[Head(runner[r].todo)]) = disposition

SkipHost(r) ==
  /\ NextIs(r, "skip")
  /\ runner' = [runner EXCEPT ![r].todo = Tail(@)]
  /\ UNCHANGED <<db, memory, restarts, ceph, ha, placing, power, seen>>

\* In flight when the daemon restarted: failed for manual review.
FailInterrupted(r) ==
  /\ NextIs(r, "fail")
  /\ rows' = [rows EXCEPT ![JobOf(r)][Head(runner[r].todo)] = "failed"]
  /\ runner' = [runner EXCEPT ![r].todo = Tail(@)]
  /\ IF runner[r].gate THEN TryUnsetNoout ELSE UNCHANGED <<noout, toldNoout>>
  /\ UNCHANGED <<jobs, opts, memory, restarts, clean, ha, placing, power, seen>>

NoTarget(r) ==
  /\ NextIs(r, "run")
  /\ LET h == Head(runner[r].todo) IN
       /\ ~InPlace(r) /\ {} \in Targets(Opt(r), h)
       /\ rows' = [rows EXCEPT ![JobOf(r)][h] = "failed"]
  /\ runner' = [runner EXCEPT ![r].todo = Tail(@)]
  /\ UNCHANGED <<jobs, opts, memory, restarts, ceph, ha, placing, power, seen>>

BeginHost(r) ==
  /\ NextIs(r, "run")
  /\ LET h == Head(runner[r].todo) IN
       /\ rows' = [rows EXCEPT ![JobOf(r)][h] = "preflight"]
       /\ \E targets \in Targets(Opt(r), h) :
            /\ InPlace(r) \/ targets # {}
            /\ runner' = [runner EXCEPT ![r].pc = "preflight", ![r].todo = Tail(@),
                                        ![r].host = h, ![r].targets = targets]
  /\ UNCHANGED <<jobs, opts, memory, restarts, ceph, ha, placing, power, seen>>

FinishJob(r) ==
  /\ At(r, "finish")
  /\ jobs' = [jobs EXCEPT ![JobOf(r)] = FinalLabel(JobOf(r))]
  /\ aborts' = aborts \ {JobOf(r)}
  /\ runner' = [runner EXCEPT ![r] = IdleRunner]
  /\ UNCHANGED <<opts, rows, decision, starting, restarts, ceph, ha, placing, power, seen>>

-----------------------------------------------------------------------------
(* _run_single_host, up to the upgrade.                                    *)

\* SSH, disk, apt repositories or the HA status are not in order, or in-place
\* mode would shut down guests the HA manager starts again.
PreflightFails(r) == At(r, "preflight") /\ FailHost(r)

PreflightPasses(r) ==
  /\ At(r, "preflight")
  /\ LET svcs == HaServicesOn(Host(r)) IN
       IF svcs # {}
       THEN /\ ~InPlace(r)
            /\ runner' = [runner EXCEPT ![r].pc = "enter_maint", ![r].has = svcs]
            /\ UNCHANGED rows
       ELSE SetRow(r, "evacuating") /\ Goto(r, "evacuate")
  /\ UNCHANGED <<jobs, opts, memory, restarts, ceph, ha, placing, power, seen>>

EnterMaintenance(r) ==
  /\ At(r, "enter_maint")
  /\ maint' = maint \cup {Host(r)}
  /\ runner' = [runner EXCEPT ![r].pc = "drain", ![r].haMaint = TRUE]
  /\ UNCHANGED <<db, memory, restarts, ceph, toldMaint, placing, power, seen>>

EnterMaintenanceFails(r) ==
  /\ At(r, "enter_maint")
  /\ \/ UNCHANGED maint
     \/ "lostreply" \in Faults /\ maint' = maint \cup {Host(r)}
  /\ SetRow(r, "failed") /\ Goto(r, "cleanup")
  /\ UNCHANGED <<jobs, opts, memory, restarts, ceph, toldMaint, placing, power, seen>>

\* _wait_ha_drained: only an HA status that shows no service is "drained".
HaDrained(r) ==
  /\ At(r, "drain") /\ ~Aborted(r)
  /\ HaServicesOn(Host(r)) = {}
  /\ SetRow(r, "evacuating") /\ Goto(r, "evacuate")
  /\ UNCHANGED <<jobs, opts, memory, restarts, ceph, ha, placing, power, seen>>

\* Aborted, or not drained (or not readable) for 30 minutes.
DrainFails(r) == At(r, "drain") /\ FailHost(r)

\* _evacuate_node and _shutdown_node_guests begin: the guests to take off the
\* host, each with the target the planner gave it.
PlanEvacuation(r) ==
  /\ At(r, "evacuate")
  /\ LET leaving == VmsOnNode(Host(r)) \ (IF InPlace(r) THEN {} ELSE runner[r].has) IN
       \E place \in [leaving -> IF InPlace(r) THEN {NoNode} ELSE runner[r].targets] :
         runner' = [runner EXCEPT ![r].pc = "moving", ![r].pending = leaving,
           ![r].plan = [g \in Guests |-> IF g \in leaving THEN place[g] ELSE NoNode]]
  /\ UNCHANGED <<db, memory, restarts, ceph, ha, placing, power, seen>>

\* The planner finds no room or no legal target: nothing is migrated.
Shortfall(r) ==
  /\ At(r, "evacuate") /\ ~InPlace(r)
  /\ VmsOnNode(Host(r)) \ runner[r].has # {}
  /\ FailHost(r)

\* One entry of the evacuation's or the shutdown's result list.
Handled(r, g, ok) ==
  runner' = [runner EXCEPT ![r].pending = @ \ {g},
                           ![r].moved = IF ok THEN @ \cup {g} ELSE @,
                           ![r].bad = @ \/ ~ok]

\* A task of guest g that was waited for, towards node n (NoNode: shut it down).
GuestLeaves(g, n) ==
  IF n = NoNode THEN on' = on \ {g} /\ UNCHANGED where
  ELSE where' = [where EXCEPT ![g] = n] /\ UNCHANGED on

\* PVE runs the task only where the guest is; otherwise it refuses.
CanLeave(g, h, n) == where[g] = h /\ (n # NoNode => power[n] = "up" /\ n # h)

MoveGuest(r, g) ==
  /\ At(r, "moving") /\ g \in runner[r].pending
  /\ CanLeave(g, Host(r), runner[r].plan[g])
  /\ GuestLeaves(g, runner[r].plan[g])
  /\ Handled(r, g, TRUE)
  /\ UNCHANGED <<db, memory, restarts, ceph, ha, late, power, seen>>

\* The task fails, is refused, or is given up on after its timeout.
MoveGuestFails(r, g) ==
  /\ At(r, "moving") /\ g \in runner[r].pending
  /\ Handled(r, g, FALSE)
  /\ \/ UNCHANGED late
     \/ /\ "late" \in Faults /\ CanLeave(g, Host(r), runner[r].plan[g])
        /\ late' = late \cup {[guest |-> g, from |-> Host(r), to |-> runner[r].plan[g]]}
  /\ UNCHANGED <<db, memory, restarts, ceph, ha, where, on, power, seen>>

\* Variant: guests that failed to leave are overlooked.
Evacuated_Mutant(r) ==
  /\ At(r, "moving") /\ runner[r].pending = {}
  /\ SetRow(r, "updating") /\ Goto(r, "updating")
  /\ UNCHANGED <<jobs, opts, memory, restarts, ceph, ha, placing, power, seen>>

Evacuated(r) ==
  /\ At(r, "moving") /\ runner[r].pending = {} /\ ~runner[r].bad
  /\ SetRow(r, "updating") /\ Goto(r, "updating")
  /\ UNCHANGED <<jobs, opts, memory, restarts, ceph, ha, placing, power, seen>>

\* Guests that did migrate stay stranded; guests that were shut down are
\* started again before the host is left.
EvacuationFails(r) ==
  /\ At(r, "moving") /\ runner[r].pending = {} /\ runner[r].bad
  /\ SetRow(r, "failed")
  /\ IF InPlace(r)
     THEN runner' = [runner EXCEPT ![r].pc = "starting", ![r].pending = runner[r].moved]
     ELSE Goto(r, "cleanup")
  /\ UNCHANGED <<jobs, opts, memory, restarts, ceph, ha, placing, power, seen>>

-----------------------------------------------------------------------------
(* _run_single_host, from the upgrade to the reboot.                       *)

AptUpgrade(r) ==
  /\ At(r, "updating")
  /\ SetRow(r, "awaiting_reboot") /\ Goto(r, "awaiting")
  /\ UNCHANGED <<jobs, opts, memory, restarts, ceph, ha, placing, power, seen>>

AptFails(r) == At(r, "updating") /\ FailHost(r)

PopDecision(r) == decision' = [decision EXCEPT ![JobOf(r)][Host(r)] = "none"]

SkipReboot(r) ==
  /\ At(r, "awaiting") /\ ~Aborted(r)
  /\ decision[JobOf(r)][Host(r)] = "skip"
  /\ PopDecision(r)
  /\ runner' = [runner EXCEPT ![r].pc = "leave_maint", ![r].choice = "skip"]
  /\ UNCHANGED <<db, aborts, starting, restarts, ceph, ha, placing, power, seen>>

\* noout is set, or fails to be, before the row says rebooting; either way the
\* runner takes it as set.
PrepareReboot(r) ==
  /\ At(r, "awaiting") /\ ~Aborted(r)
  /\ decision[JobOf(r)][Host(r)] = "reboot"
  /\ PopDecision(r)
  /\ SetRow(r, "rebooting")
  /\ noout' \in (IF runner[r].gate THEN {TRUE, noout} ELSE {noout})
  /\ runner' = [runner EXCEPT ![r].pc = "reboot", ![r].choice = "reboot",
                              ![r].nooutOn = runner[r].gate]
  /\ UNCHANGED <<jobs, opts, aborts, starting, restarts, clean, toldNoout, ha, placing,
                 power, seen>>

\* Aborted, or no decision for a week.
AwaitEnds(r) == At(r, "awaiting") /\ FailHost(r)

\* _reboot_node sends the command; an SSH failure is taken for success.
IssueReboot(r) ==
  /\ At(r, "reboot")
  /\ power' \in {power, [power EXCEPT ![Host(r)] = IF @ = "up" THEN "restarting" ELSE @]}
  /\ Goto(r, "polling")
  /\ UNCHANGED <<db, memory, restarts, ceph, ha, placing, seen>>

\* Variant: any reply of the API counts, an error too.
Answers_Mutant(n) == power[n] \in {"up", "restarting", "down"}

\* Whether the node status request is answered with an uptime above zero.
Answers(n) == power[n] = "up" \/ ("slowdown" \in Faults /\ power[n] = "restarting")

\* Variant: noout_active is reset and the flag is not.
BackOnline_Mutant(r) ==
  /\ At(r, "polling") /\ Answers(Host(r))
  /\ runner' = [runner EXCEPT ![r].pc = "leave_maint", ![r].nooutOn = FALSE]
  /\ UNCHANGED <<db, memory, restarts, ceph, ha, placing, power, seen>>

BackOnline(r) ==
  /\ At(r, "polling") /\ Answers(Host(r))
  /\ IF runner[r].nooutOn THEN TryUnsetNoout ELSE UNCHANGED <<noout, toldNoout>>
  /\ runner' = [runner EXCEPT ![r].pc = "leave_maint", ![r].nooutOn = FALSE]
  /\ UNCHANGED <<db, memory, restarts, clean, ha, placing, power, seen>>

RebootTimesOut(r) == At(r, "polling") /\ FailHost(r)

-----------------------------------------------------------------------------
(* _run_single_host, from the reboot to its finally clause.                *)

\* Where the host goes once maintenance has been left: bring the guests back.
AfterReboot(r) ==
  IF InPlace(r) THEN [pc |-> "starting", pending |-> runner[r].moved]
  ELSE IF Opt(r).back THEN [pc |-> "restoring", pending |-> runner[r].moved]
  ELSE [pc |-> "ceph", pending |-> {}]

\* Variant: ha_maint is reset whether or not the command succeeded.
LeaveMaintenance_Mutant(r) ==
  /\ At(r, "leave_maint")
  /\ maint' \in {maint, maint \ {Host(r)}}
  /\ runner' = [runner EXCEPT ![r].pc = AfterReboot(r).pc, ![r].haMaint = FALSE,
                              ![r].pending = AfterReboot(r).pending]
  /\ IF AfterReboot(r).pc = "ceph" THEN UNCHANGED rows ELSE SetRow(r, "restoring")
  /\ UNCHANGED <<jobs, opts, memory, restarts, ceph, toldMaint, placing, power, seen>>

\* A failure to leave maintenance is kept in haMaint, for the finally clause.
LeaveMaintenance(r) ==
  /\ At(r, "leave_maint")
  /\ \E left \in (IF runner[r].haMaint THEN BOOLEAN ELSE {FALSE}) :
       /\ maint' = IF left THEN maint \ {Host(r)} ELSE maint
       /\ runner' = [runner EXCEPT ![r].pc = AfterReboot(r).pc,
                                   ![r].pending = AfterReboot(r).pending,
                                   ![r].haMaint = @ /\ ~left]
  /\ IF AfterReboot(r).pc = "ceph" THEN UNCHANGED rows ELSE SetRow(r, "restoring")
  /\ UNCHANGED <<jobs, opts, memory, restarts, ceph, toldMaint, placing, power, seen>>

\* _start_node_guests: best effort, its results are not looked at.
StartGuest(r, g) ==
  /\ At(r, "starting") /\ g \in runner[r].pending
  /\ on' \in {on, on \cup {g}}
  /\ runner' = [runner EXCEPT ![r].pending = @ \ {g}]
  /\ UNCHANGED <<db, memory, restarts, ceph, ha, where, late, power, seen>>

GuestsStarted(r) ==
  /\ At(r, "starting") /\ runner[r].pending = {}
  /\ Goto(r, IF runner[r].bad THEN "cleanup" ELSE "ceph")
  /\ UNCHANGED <<db, memory, restarts, ceph, ha, placing, power, seen>>

RestoreGuest(r, g) ==
  /\ At(r, "restoring") /\ g \in runner[r].pending
  /\ where[g] = runner[r].plan[g] /\ power[Host(r)] # "down"
  /\ where' = [where EXCEPT ![g] = Host(r)]
  /\ runner' = [runner EXCEPT ![r].pending = @ \ {g}]
  /\ UNCHANGED <<db, memory, restarts, ceph, ha, on, late, power, seen>>

RestoreGuestFails(r, g) ==
  /\ At(r, "restoring") /\ g \in runner[r].pending
  /\ runner' = [runner EXCEPT ![r].pending = @ \ {g}, ![r].bad = TRUE]
  /\ \/ UNCHANGED late
     \/ /\ "late" \in Faults /\ where[g] = runner[r].plan[g]
        /\ late' = late \cup {[guest |-> g, from |-> where[g], to |-> Host(r)]}
  /\ UNCHANGED <<db, memory, restarts, ceph, ha, where, on, power, seen>>

\* Variant: guests that failed to come back are overlooked.
Restored_Mutant(r) ==
  /\ At(r, "restoring") /\ runner[r].pending = {}
  /\ Goto(r, "ceph")
  /\ UNCHANGED <<db, memory, restarts, ceph, ha, placing, power, seen>>

Restored(r) ==
  /\ At(r, "restoring") /\ runner[r].pending = {} /\ ~runner[r].bad
  /\ Goto(r, "ceph")
  /\ UNCHANGED <<db, memory, restarts, ceph, ha, placing, power, seen>>

RestoreFails(r) ==
  /\ At(r, "restoring") /\ runner[r].pending = {} /\ runner[r].bad
  /\ FailHost(r)

\* The Ceph gate is waited for only on the way out of a host that rebooted.
Waits(r) == runner[r].gate /\ runner[r].choice = "reboot"

HostDone(r) ==
  /\ At(r, "ceph")
  /\ Waits(r) => clean /\ ~Aborted(r)
  /\ SetRow(r, IF runner[r].choice = "skip" THEN "skipped" ELSE "done")
  /\ Goto(r, "cleanup")
  /\ UNCHANGED <<jobs, opts, memory, restarts, ceph, ha, placing, power, seen>>

\* Variant: the wait for Ceph takes an abort for the end of the job.
CephWaitAborted_Mutant(r) ==
  At(r, "ceph") /\ Waits(r) /\ Aborted(r) /\ runner[r].todo # <<>> /\ FailHost(r)

CephWaitAborted(r) == At(r, "ceph") /\ Waits(r) /\ Aborted(r) /\ FailHost(r)

\* The finally clause, then the next host, or the end of the job when an
\* exception is propagating.
Cleanup(r) ==
  /\ At(r, "cleanup")
  /\ IF runner[r].nooutOn THEN TryUnsetNoout ELSE UNCHANGED <<noout, toldNoout>>
  /\ IF runner[r].haMaint
     THEN \/ maint' = maint \ {Host(r)} /\ UNCHANGED toldMaint
          \/ UNCHANGED maint /\ toldMaint' = toldMaint \cup {Host(r)}
     ELSE UNCHANGED ha
  /\ IF runner[r].raised
     THEN /\ jobs' = [jobs EXCEPT ![JobOf(r)] = "aborted"]
          /\ runner' = [runner EXCEPT ![r] = IdleRunner]
     ELSE /\ runner' = [runner EXCEPT ![r] =
                          Fresh("loop", @.snap, @.todo, @.gate)]
          /\ UNCHANGED jobs
  /\ UNCHANGED <<opts, rows, memory, restarts, clean, placing, power, seen>>

\* An exception nothing in the host's own code catches.
Raise(r) ==
  \/ /\ runner[r].pc \in HostPhases
     /\ runner' = [runner EXCEPT ![r].pc = "cleanup", ![r].raised = TRUE]
     /\ UNCHANGED <<db, memory, restarts, ceph, ha, placing, power, seen>>
  \/ /\ runner[r].pc \in {"spawned", "read", "marked", "loop", "finish"}
     /\ jobs' = [jobs EXCEPT ![JobOf(r)] = "aborted"]
     /\ runner' = [runner EXCEPT ![r] = IdleRunner]
     /\ UNCHANGED <<opts, rows, memory, restarts, ceph, ha, placing, power, seen>>

-----------------------------------------------------------------------------
(* The daemon restarts, and the world moves.                               *)

\* The tasks, _JobControl and the poll cache are lost, and a runner is spawned for every job
\* whose row has one of these statuses.
Respawn(statuses) ==
  /\ restarts < MaxRestarts /\ restarts' = restarts + 1
  /\ aborts' = {}
  /\ decision' = [j \in Jobs |-> [n \in Nodes |-> "none"]]
  /\ starting' = [q \in Requests |-> NoJob]
  /\ runner' = [r \in Runners |-> IF r[2] = 1 /\ jobs[r[1]] \in statuses
                                  THEN SpawnedRunner ELSE IdleRunner]
  /\ seen' = IF "stale" \in Faults THEN [g \in Guests |-> NoNode] ELSE seen
  /\ UNCHANGED <<db, ceph, ha, placing, power>>
\* Variants: jobs that were never started are resumed as well; none is resumed.
Restart_Mutant  == Respawn({"pending", "running"})
Restart_Mutant2 == Respawn({})

\* resume_running_jobs_on_startup.
Restart == Respawn({"running"})

\* The poller copies the cluster into its cache.
Poll ==
  /\ "stale" \in Faults
  /\ seen' = [g \in Guests |-> IF g \in on THEN where[g] ELSE NoNode]
  /\ seen' # seen
  /\ UNCHANGED <<db, memory, runner, restarts, ceph, ha, placing, power>>

\* The HA manager empties a node in maintenance, and takes its guests home when
\* their home may host them again.
HaMoves(g, n) ==
  /\ n # where[g] /\ n \notin maint /\ power[n] = "up"
  /\ where[g] \in maint \/ n = Home[g]
  /\ where' = [where EXCEPT ![g] = n]
  /\ UNCHANGED <<db, memory, runner, restarts, ceph, ha, on, late, power, seen>>

\* A node that is told to reboot goes down, with whatever still runs on it.
NodeGoesDown(n) ==
  /\ power[n] = "restarting"
  /\ power' = [power EXCEPT ![n] = "down"]
  /\ on' = {g \in on : where[g] # n}
  /\ clean' = (clean /\ ~CephCluster)
  /\ UNCHANGED <<db, memory, runner, restarts, noout, toldNoout, ha, where, late, seen>>

NodeComesUp(n) ==
  /\ power[n] = "down"
  /\ power' = [power EXCEPT ![n] = "up"]
  /\ UNCHANGED <<db, memory, runner, restarts, ceph, ha, placing, seen>>

CephHeals ==
  /\ ~clean /\ \A n \in Nodes : power[n] = "up"
  /\ clean' = TRUE
  /\ UNCHANGED <<db, memory, runner, restarts, noout, toldNoout, ha, placing, power, seen>>

\* A task the daemon gave up on completes, or fails for good.
LateTask(t) ==
  /\ late' = late \ {t}
  /\ \/ UNCHANGED <<where, on>>
     \/ CanLeave(t.guest, t.from, t.to) /\ GuestLeaves(t.guest, t.to)
  /\ UNCHANGED <<db, memory, runner, restarts, ceph, ha, power, seen>>

-----------------------------------------------------------------------------

Admin ==
  \/ \E j \in Jobs, o \in JobOptions : CreateJob(j, o)
  \/ \E q \in Requests, j \in Jobs : StartCheck(q, j)
  \/ \E j \in Jobs : AbortJob(j)
  \/ \E j \in Jobs, n \in Nodes, choice \in {"reboot", "skip"} : ConfirmReboot(j, n, choice)

SweepStep(r) ==
  \/ ReadJob(r) \/ MarkRunning(r) \/ ClusterMissing(r) \/ DetectCeph(r)
  \/ LeaveLoop(r) \/ SkipHost(r)
  \/ FailInterrupted(r) \/ NoTarget(r) \/ BeginHost(r) \/ FinishJob(r) \/ Cleanup(r)

HostStep(r) ==
  \/ PreflightFails(r) \/ PreflightPasses(r)
  \/ EnterMaintenance(r) \/ EnterMaintenanceFails(r) \/ HaDrained(r) \/ DrainFails(r)
  \/ PlanEvacuation(r) \/ Shortfall(r) \/ Evacuated(r) \/ EvacuationFails(r)
  \/ AptUpgrade(r) \/ AptFails(r)
  \/ SkipReboot(r) \/ PrepareReboot(r) \/ AwaitEnds(r)
  \/ IssueReboot(r) \/ BackOnline(r) \/ RebootTimesOut(r)
  \/ LeaveMaintenance(r) \/ GuestsStarted(r) \/ Restored(r) \/ RestoreFails(r)
  \/ HostDone(r) \/ CephWaitAborted(r)

GuestStep(r, g) ==
  \/ MoveGuest(r, g) \/ MoveGuestFails(r, g)
  \/ StartGuest(r, g)
  \/ RestoreGuest(r, g) \/ RestoreGuestFails(r, g)

RunnerStep(r) == SweepStep(r) \/ HostStep(r) \/ \E g \in Guests : GuestStep(r, g)

Environment ==
  \/ Poll
  \/ CephHeals
  \/ \E n \in Nodes : NodeGoesDown(n) \/ NodeComesUp(n)
  \/ \E g \in HaGuests, n \in Nodes : HaMoves(g, n)
  \/ \E t \in late : LateTask(t)

Next ==
  \/ Admin
  \/ \E q \in Requests, r \in Runners : StartSpawn(q, r)
  \/ \E r \in Runners : RunnerStep(r) \/ Raise(r)
  \/ Restart
  \/ Environment

Spec == Init /\ [][Next]_vars

-----------------------------------------------------------------------------
(* Properties.                                                             *)

\* Every variable has its type.
TypeOK ==
  /\ jobs \in [Jobs -> JobStatus]
  /\ opts \in [Jobs -> OptionType]
  /\ rows \in [Jobs -> [Nodes -> NodeStatus]]
  /\ aborts \subseteq Jobs
  /\ decision \in [Jobs -> [Nodes -> Choices]]
  /\ starting \in [Requests -> Jobs \cup {NoJob}]
  /\ runner \in [Runners -> RunnerType]
  /\ restarts \in 0..MaxRestarts
  /\ maint \subseteq Nodes /\ toldMaint \subseteq Nodes
  /\ noout \in BOOLEAN /\ toldNoout \in BOOLEAN /\ clean \in BOOLEAN
  /\ power \in [Nodes -> {"up", "restarting", "down"}]
  /\ where \in [Guests -> Nodes]
  /\ on \subseteq Guests
  /\ late \subseteq [guest : Guests, from : Nodes, to : Nodes \cup {NoNode}]
  /\ seen \in [Guests -> Nodes \cup {NoNode}]

Live(r)     == runner[r].pc # "idle"
Sweeping(r) == runner[r].pc \in Phases \ {"idle", "spawned", "read"}

\* "One rolling sweep per cluster": no two runners are ever in their loops at
\* the same time, whichever starts, restarts and aborts came before
\* (start_job's busy check, resume_running_jobs_on_startup).
OneSweepPerCluster ==
  \A r1, r2 \in Runners : Sweeping(r1) /\ Sweeping(r2) => r1 = r2

\* The inductive strengthening of OneSweepPerCluster, for environments without
\* racing starts: at most one start or runner is ever under way, a runner in its
\* loop has its job marked running, and no job is running without a runner.
SweepInv ==
  /\ \A r \in Runners : Sweeping(r) => jobs[JobOf(r)] = "running"
  /\ \A r1, r2 \in Runners : Live(r1) /\ Live(r2) => r1 = r2
  /\ \A q1, q2 \in Requests : starting[q1] # NoJob /\ starting[q2] # NoJob => q1 = q2
  /\ \A q \in Requests, r \in Runners : starting[q] # NoJob => ~Live(r)
  /\ \A j \in Jobs : jobs[j] = "running" => \E r \in Runners : JobOf(r) = j /\ Live(r)

\* A node never goes down for its reboot under a running guest that is ours to
\* move: evacuation, shutdown and restore keep every one off it from the moment
\* the command is sent until the node is back.
RebootOnlyEmpty ==
  \A g \in on \ HaGuests : power[where[g]] = "up"

\* Nor under a guest of the HA manager: "rebooting a node whose HA services are
\* still on it is the failure this whole change exists to prevent"
\* (_wait_ha_drained).
HaGuestsLeftFirst ==
  \A g \in on \cap HaGuests : power[where[g]] = "up"

\* A node is in HA maintenance only while a runner remembers to take it out of
\* it, or the operator has been told which command does (_run_single_host's
\* finally clause).
MaintenanceAccounted ==
  \A n \in maint : n \in toldMaint \/ \E r \in Runners : Host(r) = n /\ runner[r].haMaint

\* noout stays set only while a runner remembers to unset it, or the operator
\* has been told it could not be.
NooutAccounted ==
  noout => toldNoout \/ \E r \in Runners : runner[r].nooutOn

\* The runner goes on to bring guests back only once the node it rebooted is up
\* again (_reboot_node's "back online").
BackOnlineMeansUp ==
  \A r \in Runners :
    /\ runner[r].pc \in {"leave_maint", "starting", "restoring", "ceph"}
    /\ runner[r].choice = "reboot"
    => power[Host(r)] = "up"

\* Rows of hosts that no guest was taken off yet.
Unmoved == {"absent", "queued", "preflight"}

\* Job j is the only one that may have taken guests off host n.
Alone(j, n) == \A other \in Jobs \ {j} : rows[other][n] \in Unmoved

\* A host called done or skipped, in a job that migrates back and is the only one
\* to have taken guests off it, has every guest of its own (the HA manager's
\* apart) back and running.
DoneMeansHome ==
  \A j \in Jobs, n \in Nodes :
    rows[j][n] \in {"done", "skipped"} /\ opts[j].back /\ Alone(j, n) =>
      \A g \in Guests \ HaGuests : Home[g] = n => where[g] = n /\ g \in on

\* A job that is called done or failed has settled every host of its list, and
\* one called done is not a sweep in which every host failed.
LabelHonest ==
  \A j \in Jobs :
    /\ jobs[j] \in {"done", "failed"} => RowsIn(j, Terminal \cup {"absent"}) = Nodes
    /\ jobs[j] = "done" => RowsIn(j, {"failed"}) = {} \/ RowsIn(j, {"done"}) # {}

\* With the gate on, no host is sent its reboot command while Ceph is still
\* recovering from an earlier one ("we never reboot a second node while the
\* first is still rebalancing").
NoRebootWhileDirty ==
  \A r \in Runners : At(r, "reboot") /\ runner[r].gate => clean

Rank(s) == CASE s = "absent" -> 0 [] s = "queued" -> 1 [] s = "preflight" -> 2
             [] s = "evacuating" -> 3 [] s = "updating" -> 4 [] s = "awaiting_reboot" -> 5
             [] s = "rebooting" -> 6 [] s = "restoring" -> 7 [] s \in Terminal -> 8

\* No host row ever goes back: a restart, an abort or an exception never makes
\* the orchestrator repeat a step it has begun on a host (_resume_disposition).
RowsAdvance ==
  [][\A j \in Jobs, n \in Nodes :
       rows'[j][n] # rows[j][n] => Rank(rows[j][n]) < Rank(rows'[j][n])]_rows

\* "Resume will sit in awaiting_reboot again": a restart of the daemon, by
\* itself, never takes a host out of awaiting_reboot (_JobControl's docstring).
ResumeKeepsAwaiting ==
  [][\A r \in Runners : FailInterrupted(r) =>
       rows[JobOf(r)][Head(runner[r].todo)] # "awaiting_reboot"]_vars

\* The rows implement RollingSweep: a host is waiting while queued, working
\* from preflight on, and settled by a terminal row or with its job.
PhaseOf(j, n) ==
  IF rows[j][n] = "absent" THEN "none"
  ELSE IF rows[j][n] \in Terminal \/ jobs[j] \in {"done", "failed", "aborted"} THEN "settled"
  ELSE IF rows[j][n] = "queued" /\ jobs[j] \in {"pending", "running"} THEN "waiting"
  ELSE "working"
Sweep == INSTANCE RollingSweep
           WITH Hosts <- Jobs \X Nodes, phase <- [h \in Jobs \X Nodes |-> PhaseOf(h[1], h[2])]

\* One host at a time, each at most once, settled for good: over all the jobs
\* of the cluster, through aborts, exceptions and restarts.
OneHostAtATime == Sweep!Spec

-----------------------------------------------------------------------------
(* Fairness: the event loop runs every task that can take a step; every     *)
(* wait of a runner has a deadline except the wait for Ceph.  The admin and *)
(* the daemon's restarts get none.                                          *)

Fairness  == \A r \in Runners : WF_vars(RunnerStep(r))
Recovery  == /\ WF_vars(CephHeals)
             /\ \A n \in Nodes : WF_vars(NodeGoesDown(n)) /\ WF_vars(NodeComesUp(n))
FairSpec  == Spec /\ Fairness

\* A job that is running ends, through restarts, with or without an answer of
\* the admin, provided nodes that go down and Ceph recover.
JobEnds == Recovery => \A j \in Jobs : jobs[j] = "running" ~> jobs[j] # "running"

\* An abort ends the job even where Ceph never recovers, unless a restart
\* forgets the abort.
AbortHeeded ==
  \A j \in Jobs : jobs[j] = "running" /\ j \in aborts ~> jobs[j] # "running" \/ j \notin aborts
=============================================================================
