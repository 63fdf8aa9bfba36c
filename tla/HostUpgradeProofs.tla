------------------------- MODULE HostUpgradeProofs -------------------------
(***************************************************************************)
(* What TLAPS proves of HostUpgrade, for every cluster, every set of jobs, *)
(* requests and runners, every number of restarts and every environment.   *)
(*                                                                         *)
(*   - TypeCorrect: every variable keeps its type (TypeOK).  The inductive *)
(*     invariant is TypeInv: a runner inside a host's phases has a host.   *)
(*   - OneSweep: without racing start requests, the cluster never has two  *)
(*     sweeps at a time (OneSweepPerCluster).  The inductive invariant is  *)
(*     SweepInv.                                                           *)
(*   - NooutOwned, MaintenanceOwned: while the daemon lives, noout and HA  *)
(*     maintenance mode have an owner who undoes them, or the operator     *)
(*     knows (NooutAccounted, MaintenanceAccounted).  They rest on         *)
(*     DutyPhases: where a runner can have such a duty.                    *)
(*   - BackMeansUp: a runner goes on after a reboot with a node that is up *)
(*     (BackOnlineMeansUp), for SweepInv leaves it alone with the node.    *)
(*   - RebootsEmptyNodes: no node goes down under a guest of ours          *)
(*     (RebootOnlyEmpty).  The inductive invariant is AllKnow: what the    *)
(*     runner's locals say of its host's guests is so.                     *)
(*   - RowsGoForward, LabelsAreHonest, ImplementsRollingSweep: no row goes *)
(*     back (RowsAdvance), labels agree with rows (LabelHonest), and the   *)
(*     daemon implements RollingSweep (OneHostAtATime), without racing     *)
(*     starts.  The invariant is LoopInv: the rows of a job are settled in *)
(*     the order of its list, and a runner is where they say it is.  By    *)
(*     RowSteps every step creates a job, labels one, or brings one host   *)
(*     of a running job forward.                                           *)
(*   - DoneIsHome: a host that is done has its guests back                 *)
(*     (DoneMeansHome).  The invariant is HomeInv: the guests of a host    *)
(*     nobody works on are at home, those of one somebody does can be      *)
(*     brought home.                                                       *)
(***************************************************************************)
EXTENDS HostUpgrade, TLAPS

\* A runner that is upgrading a host knows which.
HostKnown ==
  \A r \in Runners : runner[r].pc \in HostPhases \cup {"cleanup"} => runner[r].host \in Nodes

TypeInv == TypeOK /\ HostKnown

-----------------------------------------------------------------------------
(* Updates that keep the type of a variable.                               *)

\* The job of a runner is a job.
LEMMA RunnersAreJobs ==
  ASSUME NEW r \in Runners
  PROVE  JobOf(r) \in Jobs
BY DEF Runners, JobOf

\* Any row may be set to any status; a row that does not exist stays away.
LEMMA RowsTyped ==
  ASSUME NEW R \in [Jobs -> [Nodes -> NodeStatus]], NEW j \in Jobs, NEW n,
         NEW s \in NodeStatus
  PROVE  [R EXCEPT ![j][n] = s] \in [Jobs -> [Nodes -> NodeStatus]]
OBVIOUS

\* A runner's record may be replaced by any record of its type.
LEMMA RunnerTyped ==
  ASSUME NEW R \in [Runners -> RunnerType], NEW r \in Runners, NEW x \in RunnerType
  PROVE  [R EXCEPT ![r] = x] \in [Runners -> RunnerType]
OBVIOUS

\* A runner that starts a host, a sweep or nothing has a record of its type.
LEMMA FreshTyped ==
  ASSUME NEW pc \in Phases, NEW snap \in [Nodes -> NodeStatus], NEW todo \in Seq(Nodes),
         NEW gate \in BOOLEAN
  PROVE  Fresh(pc, snap, todo, gate) \in RunnerType
BY ConstantsOK DEF Fresh, RunnerType, NoPlan, Choices

LEMMA IdleTyped == IdleRunner \in RunnerType /\ SpawnedRunner \in RunnerType
<1>1. NoRows \in [Nodes -> NodeStatus]
  BY DEF NoRows, NodeStatus
<1>2. "idle" \in Phases /\ "spawned" \in Phases
  BY DEF Phases
<1>3. <<>> \in Seq(Nodes)
  OBVIOUS
<1> QED
  BY <1>1, <1>2, <1>3, FreshTyped DEF IdleRunner, SpawnedRunner

\* Moving a runner to another phase, outside a host or within the same host.
LEMMA GotoTyped ==
  ASSUME TypeInv, NEW r \in Runners, NEW p \in Phases,
         p \in HostPhases \cup {"cleanup"} => runner[r].pc \in HostPhases,
         Goto(r, p)
  PROVE  runner' \in [Runners -> RunnerType] /\ HostKnown'
<1>1. runner[r] \in RunnerType
  BY DEF TypeInv, TypeOK
<1>2. [runner[r] EXCEPT !.pc = p] \in RunnerType
  BY <1>1 DEF RunnerType
<1>3. runner' = [runner EXCEPT ![r] = [runner[r] EXCEPT !.pc = p]]
  BY DEF Goto
<1>4. runner' \in [Runners -> RunnerType]
  BY <1>2, <1>3, RunnerTyped DEF TypeInv, TypeOK
<1>5. HostKnown'
  BY <1>1, <1>3 DEF TypeInv, TypeOK, HostKnown, RunnerType
<1> QED
  BY <1>4, <1>5

\* Replacing a runner's record, host included.
LEMMA RecordTyped ==
  ASSUME TypeInv, NEW r \in Runners, NEW x \in RunnerType,
         x.pc \in HostPhases \cup {"cleanup"} => x.host \in Nodes,
         runner' = [runner EXCEPT ![r] = x]
  PROVE  runner' \in [Runners -> RunnerType] /\ HostKnown'
<1>1. runner' \in [Runners -> RunnerType]
  BY RunnerTyped DEF TypeInv, TypeOK
<1>2. HostKnown'
  BY DEF TypeInv, TypeOK, HostKnown
<1> QED
  BY <1>1, <1>2

\* The row of a runner's host is set to a status.
LEMMA SetRowTyped ==
  ASSUME TypeInv, NEW r \in Runners, NEW s \in NodeStatus, SetRow(r, s)
  PROVE  rows' \in [Jobs -> [Nodes -> NodeStatus]]
BY RunnersAreJobs, RowsTyped DEF TypeInv, TypeOK, SetRow

\* A step that touches the rows and the runners only.
LEMMA FrameTyped ==
  ASSUME TypeInv,
         rows' \in [Jobs -> [Nodes -> NodeStatus]],
         runner' \in [Runners -> RunnerType], HostKnown',
         UNCHANGED <<jobs, opts, memory, restarts, ceph, ha, placing, power, seen>>
  PROVE  TypeInv'
BY DEF TypeInv, TypeOK, memory, ceph, ha, placing

-----------------------------------------------------------------------------
(* Every step keeps TypeInv: the REST handlers, the restart, the cluster.  *)

LEMMA AdminTyped ==
  ASSUME TypeInv, Admin
  PROVE  TypeInv'
<1>1. ASSUME NEW j \in Jobs, NEW o \in JobOptions, CreateJob(j, o)
      PROVE  TypeInv'
  <2>1. o \in OptionType
    BY ConstantsOK
  <2>2. [o EXCEPT !.back = @ /\ o.mode # "in_place"] \in OptionType
    BY <2>1 DEF OptionType
  <2>3. opts' \in [Jobs -> OptionType]
    BY <1>1, <2>2 DEF CreateJob, TypeInv, TypeOK
  <2>4. rows' \in [Jobs -> [Nodes -> NodeStatus]]
    BY <1>1 DEF CreateJob, TypeInv, TypeOK, NodeStatus
  <2>5. jobs' \in [Jobs -> JobStatus]
    BY <1>1 DEF CreateJob, TypeInv, TypeOK, JobStatus
  <2> QED
    BY <1>1, <2>3, <2>4, <2>5
    DEF CreateJob, TypeInv, TypeOK, HostKnown, memory, ceph, ha, placing
<1>2. ASSUME NEW q \in Requests, NEW j \in Jobs, StartCheck(q, j)
      PROVE  TypeInv'
  BY <1>2 DEF StartCheck, TypeInv, TypeOK, HostKnown, db, ceph, ha, placing
<1>3. ASSUME NEW j \in Jobs, AbortJob(j)
      PROVE  TypeInv'
  BY <1>3 DEF AbortJob, TypeInv, TypeOK, HostKnown, db, ceph, ha, placing
<1>4. ASSUME NEW j \in Jobs, NEW n \in Nodes, NEW c \in {"reboot", "skip"},
             ConfirmReboot(j, n, c)
      PROVE  TypeInv'
  BY <1>4 DEF ConfirmReboot, TypeInv, TypeOK, HostKnown, Choices, db, ceph, ha, placing
<1> QED
  BY <1>1, <1>2, <1>3, <1>4 DEF Admin

LEMMA SpawnTyped ==
  ASSUME TypeInv, NEW q \in Requests, NEW r \in Runners, StartSpawn(q, r)
  PROVE  TypeInv'
<1>1. runner' \in [Runners -> RunnerType] /\ HostKnown'
  BY IdleTyped, RecordTyped DEF StartSpawn, SpawnedRunner, Fresh, HostPhases
<1> QED
  BY <1>1 DEF StartSpawn, TypeInv, TypeOK, db, ceph, ha, placing

LEMMA RestartTyped ==
  ASSUME TypeInv, Restart
  PROVE  TypeInv'
<1>1. runner' \in [Runners -> RunnerType]
  BY IdleTyped DEF Restart, Respawn
<1>2. HostKnown'
  BY DEF Restart, Respawn, HostKnown, SpawnedRunner, IdleRunner, Fresh, HostPhases
<1>3. restarts' \in 0..MaxRestarts
  BY ConstantsOK DEF Restart, Respawn, TypeInv, TypeOK
<1>4. seen' \in [Guests -> Nodes \cup {NoNode}]
  BY DEF Restart, Respawn, TypeInv, TypeOK
<1> QED
  BY <1>1, <1>2, <1>3, <1>4
  DEF Restart, Respawn, TypeInv, TypeOK, Choices, db, ceph, ha, placing

LEMMA EnvironmentTyped ==
  ASSUME TypeInv, Environment
  PROVE  TypeInv'
<1> USE DEF TypeInv, HostKnown
<1>1. CASE Poll
  BY <1>1 DEF Poll, TypeOK, db, memory, ceph, ha, placing
<1>2. CASE CephHeals
  BY <1>2 DEF CephHeals, TypeOK, db, memory, ha, placing
<1>3. ASSUME NEW n \in Nodes, NodeGoesDown(n)
      PROVE  TypeInv'
  BY <1>3, ConstantsOK DEF NodeGoesDown, TypeOK, db, memory, ha
<1>4. ASSUME NEW n \in Nodes, NodeComesUp(n)
      PROVE  TypeInv'
  BY <1>4 DEF NodeComesUp, TypeOK, db, memory, ceph, ha, placing
<1>5. ASSUME NEW g \in HaGuests, NEW n \in Nodes, HaMoves(g, n)
      PROVE  TypeInv'
  BY <1>5 DEF HaMoves, TypeOK, db, memory, ceph, ha
<1>6. ASSUME NEW t \in late, LateTask(t)
      PROVE  TypeInv'
  <2>1. t \in [guest : Guests, from : Nodes, to : Nodes \cup {NoNode}]
    BY DEF TypeOK
  <2>2. where' \in [Guests -> Nodes] /\ on' \subseteq Guests
    <3>1. CASE UNCHANGED <<where, on>>
      BY <3>1 DEF TypeOK
    <3>2. CASE GuestLeaves(t.guest, t.to)
      <4>1. t.guest \in Guests /\ (t.to # NoNode => t.to \in Nodes)
        BY <2>1
      <4> QED
        BY <3>2, <4>1 DEF GuestLeaves, TypeOK
    <3> QED
      BY <1>6, <3>1, <3>2 DEF LateTask
  <2> QED
    BY <1>6, <2>2 DEF LateTask, TypeOK, db, memory, ceph, ha
<1> QED
  BY <1>1, <1>2, <1>3, <1>4, <1>5, <1>6 DEF Environment

-----------------------------------------------------------------------------
(* The runner: _run_job, _run_single_host, and an exception in either.     *)

\* Ending a host early is the same step wherever it happens.
LEMMA FailHostTyped ==
  ASSUME TypeInv, NEW r \in Runners, runner[r].pc \in HostPhases, FailHost(r)
  PROVE  TypeInv'
<1>1. rows' \in [Jobs -> [Nodes -> NodeStatus]]
  BY SetRowTyped DEF FailHost, NodeStatus, Terminal
<1>2. runner' \in [Runners -> RunnerType] /\ HostKnown'
  BY GotoTyped DEF FailHost, Phases
<1> QED
  BY <1>1, <1>2, FrameTyped DEF FailHost

\* The label of a finished job is a job status.
LEMMA LabelTyped ==
  ASSUME NEW j
  PROVE  FinalLabel(j) \in {"aborted", "failed", "done"}
BY DEF FinalLabel

LEMMA SweepTyped ==
  ASSUME TypeInv, NEW r \in Runners, SweepStep(r)
  PROVE  TypeInv'
<1> USE RunnersAreJobs
<1>0. runner[r] \in RunnerType /\ rows[JobOf(r)] \in [Nodes -> NodeStatus]
  BY DEF TypeInv, TypeOK
<1>1. CASE ReadJob(r)
  <2>1. "read" \in Phases \ (HostPhases \cup {"cleanup"}) /\ Opt(r).hosts \in Seq(Nodes)
    BY DEF Phases, HostPhases, Opt, TypeInv, TypeOK, OptionType
  <2>2. Fresh("read", rows[JobOf(r)], Opt(r).hosts, FALSE) \in RunnerType
    BY <1>0, <2>1, FreshTyped
  <2>3. \A x \in {Fresh("read", rows[JobOf(r)], Opt(r).hosts, FALSE), IdleRunner} :
          x.pc \notin HostPhases \cup {"cleanup"}
    BY <2>1 DEF Fresh, IdleRunner, HostPhases
  <2>4. runner' \in [Runners -> RunnerType] /\ HostKnown'
    BY <1>1, <2>2, <2>3, IdleTyped, RecordTyped DEF ReadJob
  <2> QED
    BY <1>1, <2>4, FrameTyped DEF ReadJob, TypeInv, TypeOK, db
<1>2. CASE MarkRunning(r)
  <2>1. "marked" \in Phases \ (HostPhases \cup {"cleanup"})
    BY DEF Phases, HostPhases
  <2>2. runner' \in [Runners -> RunnerType] /\ HostKnown'
    BY <1>2, <2>1, GotoTyped DEF MarkRunning
  <2> QED
    BY <1>2, <2>2 DEF MarkRunning, TypeInv, TypeOK, JobStatus, memory, ceph, ha, placing
<1>3. CASE ClusterMissing(r)
  <2>1. runner' \in [Runners -> RunnerType] /\ HostKnown'
    BY <1>3, IdleTyped, RecordTyped DEF ClusterMissing, IdleRunner, Fresh, HostPhases
  <2> QED
    BY <1>3, <2>1
    DEF ClusterMissing, TypeInv, TypeOK, JobStatus, memory, ceph, ha, placing
<1>4. CASE LeaveLoop(r)
  <2>1. "finish" \in Phases \ (HostPhases \cup {"cleanup"})
    BY DEF Phases, HostPhases
  <2>2. runner' \in [Runners -> RunnerType] /\ HostKnown'
    BY <1>4, <2>1, GotoTyped DEF LeaveLoop
  <2> QED
    BY <1>4, <2>2, FrameTyped DEF LeaveLoop, TypeInv, TypeOK, db
\* The loop's next host, and the record of a runner that passes it over.
<1>5. ASSUME NextIs(r, "skip") \/ NextIs(r, "fail") \/ NextIs(r, "run")
      PROVE  /\ runner[r].pc = "loop"
             /\ Head(runner[r].todo) \in Nodes /\ Tail(runner[r].todo) \in Seq(Nodes)
  BY <1>0, <1>5 DEF NextIs, At, RunnerType
<1>6. ASSUME NextIs(r, "skip") \/ NextIs(r, "fail") \/ NextIs(r, "run"),
             runner' = [runner EXCEPT ![r].todo = Tail(@)]
      PROVE  runner' \in [Runners -> RunnerType] /\ HostKnown'
  <2>1. [runner[r] EXCEPT !.todo = Tail(runner[r].todo)] \in RunnerType
    BY <1>0, <1>5, <1>6 DEF RunnerType
  <2>2. runner' = [runner EXCEPT ![r] = [runner[r] EXCEPT !.todo = Tail(runner[r].todo)]]
    BY <1>6
  <2> QED
    BY <1>0, <1>5, <1>6, <2>1, <2>2, RecordTyped DEF HostPhases, RunnerType
<1>7. CASE SkipHost(r)
  BY <1>6, <1>7, FrameTyped DEF SkipHost, TypeInv, TypeOK, db
<1>8. CASE FailInterrupted(r)
  <2>1. rows' \in [Jobs -> [Nodes -> NodeStatus]]
    BY <1>8, RowsTyped DEF FailInterrupted, TypeInv, TypeOK, NodeStatus, Terminal
  <2>2. noout' \in BOOLEAN /\ toldNoout' \in BOOLEAN
    BY <1>8 DEF FailInterrupted, TryUnsetNoout, TypeInv, TypeOK
  <2>3. runner' \in [Runners -> RunnerType] /\ HostKnown'
    BY <1>6, <1>8 DEF FailInterrupted
  <2> QED
    BY <1>8, <2>1, <2>2, <2>3 DEF FailInterrupted, TypeInv, TypeOK, memory, ha, placing
<1>9. CASE NoTarget(r)
  <2>1. rows' \in [Jobs -> [Nodes -> NodeStatus]]
    BY <1>9, RowsTyped DEF NoTarget, TypeInv, TypeOK, NodeStatus, Terminal
  <2> QED
    BY <1>6, <1>9, <2>1, FrameTyped DEF NoTarget
<1>10. CASE BeginHost(r)
  <2> DEFINE h == Head(runner[r].todo)
  <2>0. PICK t \in Targets(Opt(r), h) :
          runner' = [runner EXCEPT ![r].pc = "preflight", ![r].todo = Tail(@),
                                   ![r].host = h, ![r].targets = t]
    BY <1>10 DEF BeginHost
  <2> DEFINE x == [runner[r] EXCEPT !.pc = "preflight", !.todo = Tail(runner[r].todo),
                                    !.host = h, !.targets = t]
  <2>1. h \in Nodes /\ Tail(runner[r].todo) \in Seq(Nodes)
    BY <1>5, <1>10 DEF BeginHost
  <2>2. Opt(r) \in OptionType
    BY DEF Opt, TypeInv, TypeOK
  <2>3. t \subseteq Nodes
    BY <2>0, <2>1, <2>2 DEF Targets, OptionType
  <2>4. x \in RunnerType /\ x.host \in Nodes
    <3> HIDE DEF h
    <3> QED
      BY <1>0, <2>1, <2>3 DEF RunnerType, Phases
  <2>5. runner' = [runner EXCEPT ![r] = x]
    BY <2>0
  <2>6. runner' \in [Runners -> RunnerType] /\ HostKnown'
    <3> HIDE DEF x
    <3> QED
      BY <2>4, <2>5, RecordTyped
  <2>7. rows' \in [Jobs -> [Nodes -> NodeStatus]]
    BY <1>10, RowsTyped DEF BeginHost, TypeInv, TypeOK, NodeStatus
  <2> QED
    BY <1>10, <2>6, <2>7, FrameTyped DEF BeginHost
<1>11. CASE FinishJob(r)
  <2>1. runner' \in [Runners -> RunnerType] /\ HostKnown'
    BY <1>11, IdleTyped, RecordTyped DEF FinishJob, IdleRunner, Fresh, HostPhases
  <2>2. jobs' \in [Jobs -> JobStatus]
    BY <1>11, LabelTyped DEF FinishJob, TypeInv, TypeOK, JobStatus
  <2> QED
    BY <1>11, <2>1, <2>2 DEF FinishJob, TypeInv, TypeOK, ceph, ha, placing
<1>12. CASE Cleanup(r)
  <2>1. noout' \in BOOLEAN /\ toldNoout' \in BOOLEAN
    BY <1>12 DEF Cleanup, TryUnsetNoout, TypeInv, TypeOK
  <2>2. Host(r) \in Nodes
    BY <1>12 DEF Cleanup, TypeInv, HostKnown, At, Host
  <2>3. maint' \subseteq Nodes /\ toldMaint' \subseteq Nodes
    BY <1>12, <2>2 DEF Cleanup, TypeInv, TypeOK, ha
  <2>4. Fresh("loop", runner[r].snap, runner[r].todo, runner[r].gate) \in RunnerType
    BY <1>0, FreshTyped DEF RunnerType, Phases
  <2>5. /\ runner' \in [Runners -> RunnerType] /\ HostKnown'
        /\ jobs' \in [Jobs -> JobStatus]
    <3>1. CASE runner[r].raised
      BY <1>12, <3>1, IdleTyped, RecordTyped
      DEF Cleanup, TypeInv, TypeOK, JobStatus, IdleRunner, Fresh, HostPhases
    <3>2. CASE ~runner[r].raised
      BY <1>12, <2>4, <3>2, RecordTyped DEF Cleanup, TypeInv, TypeOK, Fresh, HostPhases
    <3> QED
      BY <3>1, <3>2
  <2> QED
    BY <1>12, <2>1, <2>3, <2>5 DEF Cleanup, TypeInv, TypeOK, memory, placing
<1>13. CASE DetectCeph(r)
  <2>1. PICK gate \in BOOLEAN :
          runner' = [runner EXCEPT ![r].pc = "loop", ![r].gate = gate]
    BY <1>13, ConstantsOK DEF DetectCeph, Opt, TypeInv, TypeOK, OptionType
  <2>2. [runner[r] EXCEPT !.pc = "loop", !.gate = gate] \in RunnerType
    BY <1>0 DEF RunnerType, Phases
  <2>3. runner' = [runner EXCEPT ![r] = [runner[r] EXCEPT !.pc = "loop", !.gate = gate]]
    BY <2>1
  <2>4. runner' \in [Runners -> RunnerType] /\ HostKnown'
    BY <1>0, <2>2, <2>3, RecordTyped DEF HostPhases, RunnerType
  <2> QED
    BY <1>13, <2>4, FrameTyped DEF DetectCeph, TypeInv, TypeOK, db
<1> QED
  BY <1>1, <1>2, <1>3, <1>4, <1>7, <1>8, <1>9, <1>10, <1>11, <1>12, <1>13
  DEF SweepStep

\* A runner that stays within its host, whatever else its record changes.
LEMMA WithinHost ==
  ASSUME TypeInv, NEW r \in Runners, runner[r].pc \in HostPhases, NEW x \in RunnerType,
         x.host = runner[r].host, runner' = [runner EXCEPT ![r] = x]
  PROVE  runner' \in [Runners -> RunnerType] /\ HostKnown'
<1>1. x.host \in Nodes
  BY DEF TypeInv, HostKnown
<1> QED
  BY <1>1, RecordTyped

LEMMA DrainTyped ==
  ASSUME TypeInv, NEW r \in Runners,
         \/ PreflightFails(r) \/ PreflightPasses(r)
         \/ EnterMaintenance(r) \/ EnterMaintenanceFails(r)
         \/ HaDrained(r) \/ DrainFails(r)
  PROVE  TypeInv'
<1>0. runner[r] \in RunnerType
  BY DEF TypeInv, TypeOK
<1>1. CASE PreflightFails(r) \/ DrainFails(r)
  BY <1>1, FailHostTyped DEF PreflightFails, DrainFails, At, HostPhases, Phases
<1>2. CASE PreflightPasses(r)
  <2> DEFINE svcs == HaServicesOn(Host(r))
             x == [runner[r] EXCEPT !.pc = "enter_maint", !.has = svcs]
  <2>1. runner[r].pc = "preflight" /\ runner[r].pc \in HostPhases
    BY <1>2 DEF PreflightPasses, At, HostPhases, Phases
  <2>2. CASE svcs # {}
    <3>1. svcs \subseteq Guests
      BY ConstantsOK DEF HaServicesOn
    <3>2. x \in RunnerType /\ x.host = runner[r].host
      BY <1>0, <3>1 DEF RunnerType, Phases
    <3>3. runner' = [runner EXCEPT ![r] = x]
      BY <1>2, <2>2 DEF PreflightPasses
    <3>4. runner' \in [Runners -> RunnerType] /\ HostKnown'
      <4> HIDE DEF x
      <4> QED
        BY <2>1, <3>2, <3>3, WithinHost
    <3> QED
      BY <1>2, <2>2, <3>4, FrameTyped DEF PreflightPasses, TypeInv, TypeOK
  <2>3. CASE svcs = {}
    <3>1. SetRow(r, "evacuating") /\ Goto(r, "evacuate")
      BY <1>2, <2>3 DEF PreflightPasses
    <3>2. rows' \in [Jobs -> [Nodes -> NodeStatus]]
      BY <3>1, SetRowTyped DEF NodeStatus, InFlight
    <3>3. runner' \in [Runners -> RunnerType] /\ HostKnown'
      BY <2>1, <3>1, GotoTyped DEF Phases
    <3> QED
      BY <1>2, <3>2, <3>3, FrameTyped DEF PreflightPasses
  <2> QED
    BY <2>2, <2>3
<1>3. CASE EnterMaintenance(r)
  <2> DEFINE x == [runner[r] EXCEPT !.pc = "drain", !.haMaint = TRUE]
  <2>1. runner[r].pc \in HostPhases
    BY <1>3 DEF EnterMaintenance, At, HostPhases, Phases
  <2>2. x \in RunnerType /\ x.host = runner[r].host
    BY <1>0 DEF RunnerType, Phases
  <2>3. runner' = [runner EXCEPT ![r] = x]
    BY <1>3 DEF EnterMaintenance
  <2>4. runner' \in [Runners -> RunnerType] /\ HostKnown'
    <3> HIDE DEF x
    <3> QED
      BY <2>1, <2>2, <2>3, WithinHost
  <2>5. maint' \subseteq Nodes
    BY <1>3, <2>1 DEF EnterMaintenance, Host, TypeInv, TypeOK, HostKnown
  <2> QED
    BY <1>3, <2>4, <2>5
    DEF EnterMaintenance, TypeInv, TypeOK, db, memory, ceph, placing
<1>4. CASE EnterMaintenanceFails(r)
  <2>1. runner[r].pc \in HostPhases
    BY <1>4 DEF EnterMaintenanceFails, At, HostPhases, Phases
  <2>2. rows' \in [Jobs -> [Nodes -> NodeStatus]]
    BY <1>4, SetRowTyped DEF EnterMaintenanceFails, NodeStatus, Terminal
  <2>3. runner' \in [Runners -> RunnerType] /\ HostKnown'
    BY <1>4, <2>1, GotoTyped DEF EnterMaintenanceFails, Phases
  <2>4. maint' \subseteq Nodes
    BY <1>4, <2>1 DEF EnterMaintenanceFails, Host, TypeInv, TypeOK, HostKnown
  <2> QED
    BY <1>4, <2>2, <2>3, <2>4
    DEF EnterMaintenanceFails, TypeInv, TypeOK, memory, ceph, placing
<1>5. CASE HaDrained(r)
  <2>1. runner[r].pc \in HostPhases
    BY <1>5 DEF HaDrained, At, HostPhases, Phases
  <2>2. rows' \in [Jobs -> [Nodes -> NodeStatus]]
    BY <1>5, SetRowTyped DEF HaDrained, NodeStatus, InFlight
  <2>3. runner' \in [Runners -> RunnerType] /\ HostKnown'
    BY <1>5, <2>1, GotoTyped DEF HaDrained, Phases
  <2> QED
    BY <1>5, <2>2, <2>3, FrameTyped DEF HaDrained
<1> QED
  BY <1>1, <1>2, <1>3, <1>4, <1>5

LEMMA EvacuateTyped ==
  ASSUME TypeInv, NEW r \in Runners,
         PlanEvacuation(r) \/ Shortfall(r) \/ Evacuated(r) \/ EvacuationFails(r)
  PROVE  TypeInv'
<1>0. runner[r] \in RunnerType
  BY DEF TypeInv, TypeOK
<1>1. CASE PlanEvacuation(r)
  <2> DEFINE leaving == VmsOnNode(Host(r)) \ (IF InPlace(r) THEN {} ELSE runner[r].has)
  <2>1. PICK place \in [leaving -> IF InPlace(r) THEN {NoNode} ELSE runner[r].targets] :
          runner' = [runner EXCEPT ![r].pc = "moving", ![r].pending = leaving,
            ![r].plan = [g \in Guests |-> IF g \in leaving THEN place[g] ELSE NoNode]]
    BY <1>1 DEF PlanEvacuation
  <2> DEFINE plan == [g \in Guests |-> IF g \in leaving THEN place[g] ELSE NoNode]
             x == [runner[r] EXCEPT !.pc = "moving", !.pending = leaving, !.plan = plan]
  <2>2. leaving \subseteq Guests
    BY DEF VmsOnNode, TypeInv, TypeOK
  <2>3. runner[r].targets \subseteq Nodes
    BY <1>0 DEF RunnerType
  <2>4. plan \in [Guests -> Nodes \cup {NoNode}]
    <3> HIDE DEF leaving
    <3> QED
      BY <2>1, <2>3
  <2>5. x \in RunnerType /\ x.host = runner[r].host
    <3> HIDE DEF leaving, plan
    <3> QED
      BY <1>0, <2>2, <2>4 DEF RunnerType, Phases
  <2>6. runner' = [runner EXCEPT ![r] = x]
    BY <2>1
  <2>7. runner[r].pc \in HostPhases
    BY <1>1 DEF PlanEvacuation, At, HostPhases, Phases
  <2>8. runner' \in [Runners -> RunnerType] /\ HostKnown'
    <3> HIDE DEF x
    <3> QED
      BY <2>5, <2>6, <2>7, WithinHost
  <2> QED
    BY <1>1, <2>8, FrameTyped DEF PlanEvacuation, TypeInv, TypeOK, db
<1>2. CASE Shortfall(r)
  BY <1>2, FailHostTyped DEF Shortfall, At, HostPhases, Phases
<1>3. CASE Evacuated(r)
  <2>1. runner[r].pc \in HostPhases
    BY <1>3 DEF Evacuated, At, HostPhases, Phases
  <2>2. rows' \in [Jobs -> [Nodes -> NodeStatus]]
    BY <1>3, SetRowTyped DEF Evacuated, NodeStatus, InFlight
  <2>3. runner' \in [Runners -> RunnerType] /\ HostKnown'
    BY <1>3, <2>1, GotoTyped DEF Evacuated, Phases
  <2> QED
    BY <1>3, <2>2, <2>3, FrameTyped DEF Evacuated
<1>4. CASE EvacuationFails(r)
  <2> DEFINE x == [runner[r] EXCEPT !.pc = "starting", !.pending = runner[r].moved]
  <2>1. runner[r].pc \in HostPhases
    BY <1>4 DEF EvacuationFails, At, HostPhases, Phases
  <2>2. rows' \in [Jobs -> [Nodes -> NodeStatus]]
    BY <1>4, SetRowTyped DEF EvacuationFails, NodeStatus, Terminal
  <2>3. x \in RunnerType /\ x.host = runner[r].host
    BY <1>0 DEF RunnerType, Phases
  <2>4. InPlace(r) => runner' = [runner EXCEPT ![r] = x]
    BY <1>4 DEF EvacuationFails
  <2>5. ~InPlace(r) => Goto(r, "cleanup")
    BY <1>4 DEF EvacuationFails
  <2>6. "cleanup" \in Phases
    BY DEF Phases
  <2>7. runner' \in [Runners -> RunnerType] /\ HostKnown'
    <3> HIDE DEF x
    <3> QED
      BY <2>1, <2>3, <2>4, <2>5, <2>6, WithinHost, GotoTyped
  <2> QED
    BY <1>4, <2>2, <2>7, FrameTyped DEF EvacuationFails
<1> QED
  BY <1>1, <1>2, <1>3, <1>4

LEMMA RebootTyped ==
  ASSUME TypeInv, NEW r \in Runners,
         \/ AptUpgrade(r) \/ AptFails(r)
         \/ SkipReboot(r) \/ PrepareReboot(r) \/ AwaitEnds(r)
         \/ IssueReboot(r) \/ BackOnline(r) \/ RebootTimesOut(r)
  PROVE  TypeInv'
<1>0. runner[r] \in RunnerType
  BY DEF TypeInv, TypeOK
<1>1. CASE AptUpgrade(r)
  <2>1. rows' \in [Jobs -> [Nodes -> NodeStatus]]
    BY <1>1, SetRowTyped DEF AptUpgrade, NodeStatus, InFlight
  <2>2. runner' \in [Runners -> RunnerType] /\ HostKnown'
    BY <1>1, GotoTyped DEF AptUpgrade, At, HostPhases, Phases
  <2> QED
    BY <1>1, <2>1, <2>2, FrameTyped DEF AptUpgrade
<1>2. CASE AptFails(r) \/ AwaitEnds(r) \/ RebootTimesOut(r)
  BY <1>2, FailHostTyped DEF AptFails, AwaitEnds, RebootTimesOut, At, HostPhases, Phases
<1>3. ASSUME PopDecision(r)
      PROVE  decision' \in [Jobs -> [Nodes -> Choices]]
  BY <1>3, RunnersAreJobs DEF PopDecision, TypeInv, TypeOK, Choices
<1>4. CASE SkipReboot(r)
  <2> DEFINE x == [runner[r] EXCEPT !.pc = "leave_maint", !.choice = "skip"]
  <2>1. runner[r].pc \in HostPhases
    BY <1>4 DEF SkipReboot, At, HostPhases, Phases
  <2>2. x \in RunnerType /\ x.host = runner[r].host
    BY <1>0 DEF RunnerType, Phases, Choices
  <2>3. runner' = [runner EXCEPT ![r] = x]
    BY <1>4 DEF SkipReboot
  <2>4. runner' \in [Runners -> RunnerType] /\ HostKnown'
    <3> HIDE DEF x
    <3> QED
      BY <2>1, <2>2, <2>3, WithinHost
  <2>5. decision' \in [Jobs -> [Nodes -> Choices]]
    BY <1>3, <1>4 DEF SkipReboot
  <2> QED
    BY <1>4, <2>4, <2>5 DEF SkipReboot, TypeInv, TypeOK, db, ceph, ha, placing
<1>5. CASE PrepareReboot(r)
  <2> DEFINE x == [runner[r] EXCEPT !.pc = "reboot", !.choice = "reboot",
                                    !.nooutOn = runner[r].gate]
  <2>1. runner[r].pc \in HostPhases
    BY <1>5 DEF PrepareReboot, At, HostPhases, Phases
  <2>2. x \in RunnerType /\ x.host = runner[r].host
    BY <1>0 DEF RunnerType, Phases, Choices
  <2>3. runner' = [runner EXCEPT ![r] = x]
    BY <1>5 DEF PrepareReboot
  <2>4. runner' \in [Runners -> RunnerType] /\ HostKnown'
    <3> HIDE DEF x
    <3> QED
      BY <2>1, <2>2, <2>3, WithinHost
  <2>5. decision' \in [Jobs -> [Nodes -> Choices]]
    BY <1>3, <1>5 DEF PrepareReboot
  <2>6. rows' \in [Jobs -> [Nodes -> NodeStatus]]
    BY <1>5, SetRowTyped DEF PrepareReboot, NodeStatus, InFlight
  <2>7. noout' \in BOOLEAN
    BY <1>5 DEF PrepareReboot, TypeInv, TypeOK
  <2> QED
    BY <1>5, <2>4, <2>5, <2>6, <2>7 DEF PrepareReboot, TypeInv, TypeOK, ha, placing
<1>6. CASE IssueReboot(r)
  <2>1. runner' \in [Runners -> RunnerType] /\ HostKnown'
    BY <1>6, GotoTyped DEF IssueReboot, At, HostPhases, Phases
  <2>2. power' \in [Nodes -> {"up", "restarting", "down"}]
    BY <1>6 DEF IssueReboot, TypeInv, TypeOK
  <2> QED
    BY <1>6, <2>1, <2>2 DEF IssueReboot, TypeInv, TypeOK, db, memory, ceph, ha, placing
<1>7. CASE BackOnline(r)
  <2> DEFINE x == [runner[r] EXCEPT !.pc = "leave_maint", !.nooutOn = FALSE]
  <2>1. runner[r].pc \in HostPhases
    BY <1>7 DEF BackOnline, At, HostPhases, Phases
  <2>2. x \in RunnerType /\ x.host = runner[r].host
    BY <1>0 DEF RunnerType, Phases
  <2>3. runner' = [runner EXCEPT ![r] = x]
    BY <1>7 DEF BackOnline
  <2>4. runner' \in [Runners -> RunnerType] /\ HostKnown'
    <3> HIDE DEF x
    <3> QED
      BY <2>1, <2>2, <2>3, WithinHost
  <2>5. noout' \in BOOLEAN /\ toldNoout' \in BOOLEAN
    BY <1>7 DEF BackOnline, TryUnsetNoout, TypeInv, TypeOK
  <2> QED
    BY <1>7, <2>4, <2>5 DEF BackOnline, TypeInv, TypeOK, db, memory, ha, placing
<1> QED
  BY <1>1, <1>2, <1>4, <1>5, <1>6, <1>7

LEMMA ReturnTyped ==
  ASSUME TypeInv, NEW r \in Runners,
         \/ LeaveMaintenance(r) \/ GuestsStarted(r) \/ Restored(r) \/ RestoreFails(r)
         \/ HostDone(r) \/ CephWaitAborted(r)
  PROVE  TypeInv'
<1>0. runner[r] \in RunnerType
  BY DEF TypeInv, TypeOK
<1>1. CASE LeaveMaintenance(r)
  <2>1. PICK left \in BOOLEAN :
          /\ maint' = IF left THEN maint \ {Host(r)} ELSE maint
          /\ runner' = [runner EXCEPT ![r].pc = AfterReboot(r).pc,
                                      ![r].pending = AfterReboot(r).pending,
                                      ![r].haMaint = @ /\ ~left]
    BY <1>1 DEF LeaveMaintenance
  <2> DEFINE after == AfterReboot(r)
             x == [runner[r] EXCEPT !.pc = after.pc, !.pending = after.pending,
                                    !.haMaint = runner[r].haMaint /\ ~left]
  <2>2. after.pc \in Phases /\ after.pending \subseteq Guests
    BY <1>0 DEF AfterReboot, RunnerType, Phases
  <2>3. x \in RunnerType /\ x.host = runner[r].host
    <3> HIDE DEF after
    <3> QED
      BY <1>0, <2>2 DEF RunnerType
  <2>4. runner' = [runner EXCEPT ![r] = x]
    BY <2>1
  <2>5. runner[r].pc \in HostPhases
    BY <1>1 DEF LeaveMaintenance, At, HostPhases, Phases
  <2>6. runner' \in [Runners -> RunnerType] /\ HostKnown'
    <3> HIDE DEF x
    <3> QED
      BY <2>3, <2>4, <2>5, WithinHost
  <2>7. rows' \in [Jobs -> [Nodes -> NodeStatus]]
    <3>1. CASE SetRow(r, "restoring")
      BY <3>1, SetRowTyped DEF NodeStatus, InFlight
    <3>2. CASE UNCHANGED rows
      BY <3>2 DEF TypeInv, TypeOK
    <3> QED
      BY <1>1, <3>1, <3>2 DEF LeaveMaintenance
  <2> QED
    BY <1>1, <2>1, <2>6, <2>7 DEF LeaveMaintenance, TypeInv, TypeOK, memory, ceph, placing
<1>2. CASE GuestsStarted(r)
  <2>1. runner' \in [Runners -> RunnerType] /\ HostKnown'
    BY <1>2, GotoTyped DEF GuestsStarted, At, HostPhases, Phases
  <2> QED
    BY <1>2, <2>1, FrameTyped DEF GuestsStarted, TypeInv, TypeOK, db
<1>3. CASE Restored(r)
  <2>1. runner' \in [Runners -> RunnerType] /\ HostKnown'
    BY <1>3, GotoTyped DEF Restored, At, HostPhases, Phases
  <2> QED
    BY <1>3, <2>1, FrameTyped DEF Restored, TypeInv, TypeOK, db
<1>4. CASE RestoreFails(r) \/ CephWaitAborted(r)
  BY <1>4, FailHostTyped DEF RestoreFails, CephWaitAborted, At, HostPhases, Phases
<1>5. CASE HostDone(r)
  <2>1. rows' \in [Jobs -> [Nodes -> NodeStatus]]
    <3>1. PICK s \in {"skipped", "done"} : SetRow(r, s)
      BY <1>5 DEF HostDone
    <3> QED
      BY <3>1, SetRowTyped DEF NodeStatus, Terminal
  <2>2. runner' \in [Runners -> RunnerType] /\ HostKnown'
    BY <1>5, GotoTyped DEF HostDone, At, HostPhases, Phases
  <2> QED
    BY <1>5, <2>1, <2>2, FrameTyped DEF HostDone
<1> QED
  BY <1>1, <1>2, <1>3, <1>4, <1>5

LEMMA HostStepTyped ==
  ASSUME TypeInv, NEW r \in Runners, HostStep(r)
  PROVE  TypeInv'
BY DrainTyped, EvacuateTyped, RebootTyped, ReturnTyped DEF HostStep

\* The steps for one guest of the host: the runner's loop goes on to the next.
LEMMA GuestStepTyped ==
  ASSUME TypeInv, NEW r \in Runners, NEW g \in Guests, GuestStep(r, g)
  PROVE  TypeInv'
<1>0. runner[r] \in RunnerType
  BY DEF TypeInv, TypeOK
<1>1. runner[r].pc \in HostPhases
  BY DEF GuestStep, MoveGuest, MoveGuestFails, StartGuest, RestoreGuest,
         RestoreGuestFails, At, HostPhases, Phases
<1>2. Host(r) \in Nodes
  BY <1>1 DEF Host, TypeInv, HostKnown
<1>3. PICK moved \in SUBSET Guests, bad \in BOOLEAN :
        runner' = [runner EXCEPT ![r] = [runner[r] EXCEPT
          !.pending = runner[r].pending \ {g}, !.moved = moved, !.bad = bad]]
  <2>1. runner[r].moved \cup {g} \in SUBSET Guests /\ runner[r].moved \in SUBSET Guests
    BY <1>0 DEF RunnerType
  <2>2. runner[r].bad \in BOOLEAN
    BY <1>0 DEF RunnerType
  <2>3. ASSUME NEW ok \in BOOLEAN, Handled(r, g, ok)
        PROVE  runner' = [runner EXCEPT ![r] = [runner[r] EXCEPT
                 !.pending = runner[r].pending \ {g},
                 !.moved = IF ok THEN runner[r].moved \cup {g} ELSE runner[r].moved,
                 !.bad = runner[r].bad \/ ~ok]]
    BY <2>3 DEF Handled
  <2>4. CASE MoveGuest(r, g)
    BY <2>1, <2>2, <2>3, <2>4 DEF MoveGuest
  <2>5. CASE MoveGuestFails(r, g)
    BY <2>1, <2>2, <2>3, <2>5 DEF MoveGuestFails
  <2>6. CASE StartGuest(r, g) \/ RestoreGuest(r, g)
    <3>1. runner' = [runner EXCEPT ![r] = [runner[r] EXCEPT
            !.pending = runner[r].pending \ {g}]]
      BY <2>6 DEF StartGuest, RestoreGuest
    <3>2. [runner[r] EXCEPT !.pending = runner[r].pending \ {g}] =
          [runner[r] EXCEPT !.pending = runner[r].pending \ {g},
             !.moved = runner[r].moved, !.bad = runner[r].bad]
      BY <1>0 DEF RunnerType
    <3> QED
      BY <2>1, <2>2, <3>1, <3>2
  <2>7. CASE RestoreGuestFails(r, g)
    <3>1. runner' = [runner EXCEPT ![r] = [runner[r] EXCEPT
            !.pending = runner[r].pending \ {g}, !.bad = TRUE]]
      BY <2>7 DEF RestoreGuestFails
    <3>2. [runner[r] EXCEPT !.pending = runner[r].pending \ {g}, !.bad = TRUE] =
          [runner[r] EXCEPT !.pending = runner[r].pending \ {g},
             !.moved = runner[r].moved, !.bad = TRUE]
      BY <1>0 DEF RunnerType
    <3> QED
      BY <2>1, <3>1, <3>2
  <2> QED
    BY <2>4, <2>5, <2>6, <2>7 DEF GuestStep
<1> DEFINE x == [runner[r] EXCEPT !.pending = runner[r].pending \ {g}, !.moved = moved,
                                  !.bad = bad]
<1>4. x \in RunnerType /\ x.host = runner[r].host
  BY <1>0 DEF RunnerType
<1>5. runner' \in [Runners -> RunnerType] /\ HostKnown'
  <2>1. runner' = [runner EXCEPT ![r] = x]
    BY <1>3
  <2> HIDE DEF x
  <2> QED
    BY <1>1, <1>4, <2>1, WithinHost
<1>6. runner[r].plan[g] \in Nodes \cup {NoNode}
  BY <1>0 DEF RunnerType
<1>7. where' \in [Guests -> Nodes] /\ on' \subseteq Guests
  BY <1>2, <1>6 DEF GuestStep, MoveGuest, MoveGuestFails, StartGuest, RestoreGuest,
                    RestoreGuestFails, GuestLeaves, TypeInv, TypeOK
<1>8. late' \subseteq [guest : Guests, from : Nodes, to : Nodes \cup {NoNode}]
  <2>1. where[g] \in Nodes
    BY DEF TypeInv, TypeOK
  <2>2. [guest |-> g, from |-> Host(r), to |-> runner[r].plan[g]] \in
          [guest : Guests, from : Nodes, to : Nodes \cup {NoNode}]
    BY <1>2, <1>6
  <2>3. [guest |-> g, from |-> where[g], to |-> Host(r)] \in
          [guest : Guests, from : Nodes, to : Nodes \cup {NoNode}]
    BY <1>2, <2>1
  <2>4. late' \in {late,
          late \cup {[guest |-> g, from |-> Host(r), to |-> runner[r].plan[g]]},
          late \cup {[guest |-> g, from |-> where[g], to |-> Host(r)]}}
    BY DEF GuestStep, MoveGuest, MoveGuestFails, StartGuest, RestoreGuest,
           RestoreGuestFails
  <2> QED
    BY <2>2, <2>3, <2>4 DEF TypeInv, TypeOK
<1>9. UNCHANGED <<db, memory, restarts, ceph, ha, power, seen>>
  BY DEF GuestStep, MoveGuest, MoveGuestFails, StartGuest, RestoreGuest, RestoreGuestFails
<1> QED
  BY <1>5, <1>7, <1>8, <1>9 DEF TypeInv, TypeOK, db, memory, ceph, ha

LEMMA RaiseTyped ==
  ASSUME TypeInv, NEW r \in Runners, Raise(r)
  PROVE  TypeInv'
<1>0. runner[r] \in RunnerType
  BY DEF TypeInv, TypeOK
<1>1. CASE runner[r].pc \in HostPhases
  <2> DEFINE x == [runner[r] EXCEPT !.pc = "cleanup", !.raised = TRUE]
  <2>1. x \in RunnerType /\ x.host = runner[r].host
    BY <1>0 DEF RunnerType, Phases
  <2>2. runner' = [runner EXCEPT ![r] = x] /\ UNCHANGED <<db, memory, restarts, ceph, ha,
                                                          placing, power, seen>>
    BY <1>1 DEF Raise, HostPhases
  <2>3. runner' \in [Runners -> RunnerType] /\ HostKnown'
    <3> HIDE DEF x
    <3> QED
      BY <1>1, <2>1, <2>2, WithinHost
  <2> QED
    BY <2>2, <2>3, FrameTyped DEF TypeInv, TypeOK, db
<1>2. CASE runner[r].pc \notin HostPhases
  <2>1. /\ jobs' = [jobs EXCEPT ![JobOf(r)] = "aborted"]
        /\ runner' = [runner EXCEPT ![r] = IdleRunner]
        /\ UNCHANGED <<opts, rows, memory, restarts, ceph, ha, placing, power, seen>>
    BY <1>2 DEF Raise
  <2>2. runner' \in [Runners -> RunnerType] /\ HostKnown'
    BY <2>1, IdleTyped, RecordTyped DEF IdleRunner, Fresh, HostPhases
  <2> QED
    BY <2>1, <2>2 DEF TypeInv, TypeOK, JobStatus, memory, ceph, ha, placing
<1> QED
  BY <1>1, <1>2

-----------------------------------------------------------------------------
(* Every variable keeps its type, whatever the environment does (TypeOK).   *)

LEMMA TypeInit == Init => TypeInv
<1> SUFFICES ASSUME Init
             PROVE  TypeInv
  OBVIOUS
<1>1. NoOption \in OptionType
  BY DEF NoOption, OptionType
<1>2. runner \in [Runners -> RunnerType]
  BY IdleTyped DEF Init
<1>3. HostKnown
  BY DEF Init, HostKnown, IdleRunner, Fresh, HostPhases
<1>4. NoRows \in [Nodes -> NodeStatus]
  BY DEF NoRows, NodeStatus
<1>5. opts \in [Jobs -> OptionType] /\ rows \in [Jobs -> [Nodes -> NodeStatus]]
  BY <1>1, <1>4 DEF Init
<1>6. restarts \in 0..MaxRestarts
  BY ConstantsOK DEF Init
<1>7. where \in [Guests -> Nodes] /\ seen \in [Guests -> Nodes \cup {NoNode}]
  BY ConstantsOK DEF Init
<1> QED
  BY <1>2, <1>3, <1>5, <1>6, <1>7 DEF Init, TypeInv, TypeOK, JobStatus, Choices

LEMMA TypeNext == TypeInv /\ [Next]_vars => TypeInv'
<1> SUFFICES ASSUME TypeInv, [Next]_vars
             PROVE  TypeInv'
  OBVIOUS
<1>1. CASE UNCHANGED vars
  BY <1>1 DEF vars, TypeInv, TypeOK, HostKnown, db, memory, ceph, ha, placing
<1>2. CASE Next
  BY <1>2, AdminTyped, SpawnTyped, SweepTyped, HostStepTyped, GuestStepTyped, RaiseTyped,
     RestartTyped, EnvironmentTyped DEF Next, RunnerStep
<1> QED
  BY <1>1, <1>2

\* The type invariant holds in every behaviour, with every fault.
THEOREM TypeCorrect == Spec => []TypeOK
<1>1. Spec => []TypeInv
  BY TypeInit, TypeNext, PTL DEF Spec
<1> QED
  BY <1>1, PTL DEF TypeInv

-----------------------------------------------------------------------------
(* One sweep per cluster, where start requests do not race.                *)

\* A runner in its sweep stays in it, and nothing else the invariant reads moves.
Quiet(r) ==
  /\ Sweeping(r) /\ Sweeping(r)'
  /\ \A other \in Runners \ {r} : runner'[other] = runner[other]
  /\ UNCHANGED <<jobs, starting>>

LEMMA QuietKeepsSweep ==
  ASSUME SweepInv, NEW r \in Runners, Quiet(r)
  PROVE  SweepInv'
BY DEF SweepInv, Quiet, Sweeping, Live, JobOf, Phases

LEMMA HostStepQuiet ==
  ASSUME TypeInv, NEW r \in Runners, HostStep(r)
  PROVE  Quiet(r)
<1>0. runner[r] \in RunnerType
  BY DEF TypeInv, TypeOK
<1>1. Sweeping(r)
  BY DEF HostStep, PreflightFails, PreflightPasses, EnterMaintenance,
         EnterMaintenanceFails, HaDrained, DrainFails, PlanEvacuation, Shortfall,
         Evacuated, EvacuationFails, AptUpgrade, AptFails, SkipReboot, PrepareReboot,
         AwaitEnds, IssueReboot, BackOnline, RebootTimesOut, LeaveMaintenance,
         GuestsStarted, Restored, RestoreFails, HostDone, CephWaitAborted,
         At, Sweeping, Phases
<1>2. UNCHANGED <<jobs, starting>>
  BY DEF HostStep, PreflightFails, PreflightPasses, EnterMaintenance,
         EnterMaintenanceFails, HaDrained, DrainFails, PlanEvacuation, Shortfall,
         Evacuated, EvacuationFails, AptUpgrade, AptFails, SkipReboot, PrepareReboot,
         AwaitEnds, IssueReboot, BackOnline, RebootTimesOut, LeaveMaintenance,
         GuestsStarted, Restored, RestoreFails, HostDone, CephWaitAborted,
         FailHost, db, memory
<1>3. \A other \in Runners \ {r} : runner'[other] = runner[other]
  BY DEF HostStep, PreflightFails, PreflightPasses, EnterMaintenance,
         EnterMaintenanceFails, HaDrained, DrainFails, PlanEvacuation, Shortfall,
         Evacuated, EvacuationFails, AptUpgrade, AptFails, SkipReboot, PrepareReboot,
         AwaitEnds, IssueReboot, BackOnline, RebootTimesOut, LeaveMaintenance,
         GuestsStarted, Restored, RestoreFails, HostDone, CephWaitAborted,
         FailHost, Goto, TypeInv, TypeOK
<1>4. Sweeping(r)'
  <2> USE <1>0 DEF Sweeping, Phases, RunnerType, TypeInv, TypeOK
  <2>1. ASSUME NEW p \in Phases \ {"idle", "spawned", "read"}, Goto(r, p)
        PROVE  Sweeping(r)'
    BY <2>1 DEF Goto
  <2>2. CASE PreflightPasses(r)
    <3>1. \/ Goto(r, "evacuate")
          \/ \E S : runner' = [runner EXCEPT ![r].pc = "enter_maint", ![r].has = S]
      BY <2>2 DEF PreflightPasses
    <3>2. ASSUME NEW S, runner' = [runner EXCEPT ![r].pc = "enter_maint", ![r].has = S]
          PROVE  Sweeping(r)'
      BY <3>2
    <3> QED
      BY <2>1, <3>1, <3>2
  <2>3. CASE EnterMaintenance(r)
    BY <2>3 DEF EnterMaintenance
  <2>4. ASSUME NEW S, NEW f, NEW p \in Phases \ {"idle", "spawned", "read"},
               runner' = [runner EXCEPT ![r].pc = p, ![r].pending = S, ![r].plan = f]
        PROVE  Sweeping(r)'
    BY <2>4
  <2>10. CASE PlanEvacuation(r)
    BY <2>4, <2>10 DEF PlanEvacuation
  <2>5. CASE EvacuationFails(r)
    <3>1. \/ Goto(r, "cleanup")
          \/ \E S : runner' = [runner EXCEPT ![r].pc = "starting", ![r].pending = S]
      BY <2>5 DEF EvacuationFails
    <3>2. ASSUME NEW S, runner' = [runner EXCEPT ![r].pc = "starting", ![r].pending = S]
          PROVE  Sweeping(r)'
      BY <3>2
    <3> QED
      BY <2>1, <3>1, <3>2
  <2>6. CASE SkipReboot(r)
    BY <2>6 DEF SkipReboot
  <2>11. CASE PrepareReboot(r)
    BY <2>11 DEF PrepareReboot
  <2>7. CASE BackOnline(r)
    BY <2>7 DEF BackOnline
  <2>8. CASE LeaveMaintenance(r)
    <3>1. AfterReboot(r).pc \in Phases \ {"idle", "spawned", "read"}
      BY DEF AfterReboot
    <3> QED
      BY <2>8, <3>1 DEF LeaveMaintenance
  <2>9. CASE GuestsStarted(r)
    BY <2>1, <2>9 DEF GuestsStarted
  <2> QED
    BY <2>1, <2>2, <2>3, <2>10, <2>5, <2>6, <2>7, <2>8, <2>9, <2>11
    DEF HostStep, PreflightFails, EnterMaintenanceFails, HaDrained, DrainFails, Shortfall,
        Evacuated, AptUpgrade, AptFails, AwaitEnds, IssueReboot, RebootTimesOut, Restored,
        RestoreFails, HostDone, CephWaitAborted, FailHost
<1> QED
  BY <1>1, <1>2, <1>3, <1>4 DEF Quiet

LEMMA GuestStepQuiet ==
  ASSUME TypeInv, NEW r \in Runners, NEW g \in Guests, GuestStep(r, g)
  PROVE  Quiet(r)
<1>0. runner[r] \in RunnerType
  BY DEF TypeInv, TypeOK
<1>1. runner'[r].pc = runner[r].pc
  <2> USE <1>0 DEF RunnerType, TypeInv, TypeOK
  <2>1. ASSUME NEW ok \in BOOLEAN, Handled(r, g, ok)
        PROVE  runner'[r].pc = runner[r].pc
    BY <2>1 DEF Handled
  <2>2. CASE MoveGuest(r, g) \/ MoveGuestFails(r, g)
    BY <2>1, <2>2 DEF MoveGuest, MoveGuestFails
  <2>3. CASE StartGuest(r, g) \/ RestoreGuest(r, g)
    BY <2>3 DEF StartGuest, RestoreGuest
  <2>4. CASE RestoreGuestFails(r, g)
    BY <2>4 DEF RestoreGuestFails
  <2> QED
    BY <2>2, <2>3, <2>4 DEF GuestStep
<1>2. Sweeping(r)
  BY DEF GuestStep, MoveGuest, MoveGuestFails, StartGuest, RestoreGuest,
         RestoreGuestFails, At, Sweeping, Phases
<1>3. \A other \in Runners \ {r} : runner'[other] = runner[other]
  BY DEF GuestStep, MoveGuest, MoveGuestFails, StartGuest, RestoreGuest,
         RestoreGuestFails, Handled, TypeInv, TypeOK
<1>4. UNCHANGED <<jobs, starting>>
  BY DEF GuestStep, MoveGuest, MoveGuestFails, StartGuest, RestoreGuest,
         RestoreGuestFails, db, memory
<1> QED
  BY <1>1, <1>2, <1>3, <1>4 DEF Quiet, Sweeping

\* A runner that ends leaves a job that is not running.
LEMMA EndKeepsSweep ==
  ASSUME TypeInv, SweepInv, NEW r \in Runners, Live(r),
         runner' = [runner EXCEPT ![r] = IdleRunner], UNCHANGED starting,
         NEW s \in JobStatus \ {"running"}, jobs' = [jobs EXCEPT ![JobOf(r)] = s]
  PROVE  SweepInv'
<1>1. runner'[r].pc = "idle" /\ \A other \in Runners \ {r} : runner'[other] = runner[other]
  BY DEF TypeInv, TypeOK, IdleRunner, Fresh
<1>2. /\ jobs'[JobOf(r)] # "running"
      /\ \A j \in Jobs \ {JobOf(r)} : jobs'[j] = jobs[j]
  BY RunnersAreJobs DEF TypeInv, TypeOK
<1>3. \A other \in Runners : ~Live(other)'
  BY <1>1 DEF SweepInv, Live
<1>4. \A j \in Jobs : jobs'[j] # "running"
  BY <1>2 DEF SweepInv, Live
<1>5. \A other \in Runners : ~Sweeping(other)'
  BY <1>3 DEF Live, Sweeping
<1> QED
  BY <1>3, <1>4, <1>5 DEF SweepInv

LEMMA SweepStepKeeps ==
  ASSUME TypeInv, SweepInv, NEW r \in Runners, SweepStep(r)
  PROVE  SweepInv'
<1>0. /\ runner[r] \in RunnerType /\ runner[r] \in [pc : Phases] \cup RunnerType
      /\ JobOf(r) \in Jobs /\ jobs[JobOf(r)] \in JobStatus
  BY RunnersAreJobs DEF TypeInv, TypeOK
<1>1. CASE ReadJob(r)
  <2>1. CASE jobs[JobOf(r)] \in {"pending", "running"}
    <3>1. /\ runner'[r].pc = "read" /\ runner[r].pc = "spawned"
          /\ \A other \in Runners \ {r} : runner'[other] = runner[other]
          /\ UNCHANGED <<jobs, starting>>
      BY <1>1, <2>1 DEF ReadJob, Fresh, At, TypeInv, TypeOK, db, memory
    <3> QED
      BY <3>1 DEF SweepInv, Live, Sweeping
  <2>2. CASE jobs[JobOf(r)] \notin {"pending", "running"}
    <3>1. /\ runner' = [runner EXCEPT ![r] = IdleRunner] /\ UNCHANGED <<jobs, starting>>
          /\ Live(r)
      BY <1>1, <2>2 DEF ReadJob, Live, At, db, memory
    <3>2. jobs' = [jobs EXCEPT ![JobOf(r)] = jobs[JobOf(r)]]
      BY <3>1 DEF TypeInv, TypeOK
    <3> QED
      BY <1>0, <2>2, <3>1, <3>2, EndKeepsSweep
  <2> QED
    BY <2>1, <2>2
<1>2. CASE MarkRunning(r)
  <2>2. /\ runner'[r].pc = "marked" /\ runner[r].pc = "read"
        /\ \A other \in Runners \ {r} : runner'[other] = runner[other]
    BY <1>0, <1>2 DEF MarkRunning, Goto, At, TypeInv, TypeOK, RunnerType
  <2>3. jobs' = [jobs EXCEPT ![JobOf(r)] = "running"] /\ UNCHANGED starting
    BY <1>2 DEF MarkRunning, memory
  <2>4. /\ jobs'[JobOf(r)] = "running"
        /\ \A j \in Jobs \ {JobOf(r)} : jobs'[j] = jobs[j]
    BY <1>0, <2>3 DEF TypeInv, TypeOK
  <2>5. \A other \in Runners : Live(other)' <=> other = r
    BY <2>2 DEF SweepInv, Live
  <2>6. \A other \in Runners : Sweeping(other)' => other = r
    BY <2>5 DEF Live, Sweeping
  <2>7. Live(r)
    BY <2>2 DEF Live
  <2> QED
    BY <2>3, <2>4, <2>5, <2>6, <2>7 DEF SweepInv
<1>3. CASE ClusterMissing(r) \/ FinishJob(r)
  <2>1. Live(r)
    BY <1>3 DEF ClusterMissing, FinishJob, At, Live
  <2>2. \E s \in {"aborted", "failed", "done"} : jobs' = [jobs EXCEPT ![JobOf(r)] = s]
    BY <1>3, LabelTyped DEF ClusterMissing, FinishJob
  <2>3. runner' = [runner EXCEPT ![r] = IdleRunner] /\ UNCHANGED starting
    BY <1>3 DEF ClusterMissing, FinishJob, memory
  <2> QED
    BY <2>1, <2>2, <2>3, EndKeepsSweep DEF JobStatus
<1>4. CASE \/ DetectCeph(r) \/ LeaveLoop(r) \/ SkipHost(r) \/ FailInterrupted(r)
           \/ NoTarget(r) \/ BeginHost(r)
  <2>1. Sweeping(r) /\ UNCHANGED <<jobs, starting>>
    BY <1>4 DEF DetectCeph, LeaveLoop, SkipHost, FailInterrupted, NoTarget, BeginHost,
                NextIs, At, Sweeping, Phases, db, memory
  <2>2. \A other \in Runners \ {r} : runner'[other] = runner[other]
    BY <1>4 DEF DetectCeph, LeaveLoop, SkipHost, FailInterrupted, NoTarget, BeginHost,
                Goto, TypeInv, TypeOK
  <2>3. Sweeping(r)'
    <3> USE <1>0 DEF Sweeping, Phases, RunnerType, TypeInv, TypeOK
    <3>1. CASE LeaveLoop(r)
      BY <3>1 DEF LeaveLoop, Goto
    <3>2. CASE SkipHost(r) \/ FailInterrupted(r) \/ NoTarget(r)
      BY <2>1, <3>2 DEF SkipHost, FailInterrupted, NoTarget
    <3>3. CASE BeginHost(r)
      <4>1. ASSUME NEW S, NEW h, NEW t,
                   runner' = [runner EXCEPT ![r].pc = "preflight", ![r].todo = S,
                                            ![r].host = h, ![r].targets = t]
            PROVE  Sweeping(r)'
        BY <4>1
      <4> QED
        BY <3>3, <4>1 DEF BeginHost
    <3>4. CASE DetectCeph(r)
      <4>1. ASSUME NEW b, runner' = [runner EXCEPT ![r].pc = "loop", ![r].gate = b]
            PROVE  Sweeping(r)'
        BY <4>1
      <4> QED
        BY <3>4, <4>1 DEF DetectCeph
    <3> QED
      BY <1>4, <3>1, <3>2, <3>3, <3>4
  <2> QED
    BY <2>1, <2>2, <2>3, QuietKeepsSweep DEF Quiet
<1>5. CASE Cleanup(r)
  <2>1. runner[r].pc = "cleanup" /\ UNCHANGED starting
    BY <1>5 DEF Cleanup, At, memory
  <2>2. CASE runner[r].raised
    BY <1>5, <2>1, <2>2, EndKeepsSweep DEF Cleanup, Live, JobStatus
  <2>3. CASE ~runner[r].raised
    <3>1. /\ UNCHANGED jobs
          /\ runner' = [runner EXCEPT ![r] =
               Fresh("loop", runner[r].snap, runner[r].todo, runner[r].gate)]
      BY <1>5, <2>3 DEF Cleanup
    <3> QED
      BY <2>1, <3>1, QuietKeepsSweep
      DEF Quiet, Sweeping, Phases, Fresh, TypeInv, TypeOK
  <2> QED
    BY <2>2, <2>3
<1> QED
  BY <1>1, <1>2, <1>3, <1>4, <1>5 DEF SweepStep

LEMMA RaiseKeepsSweep ==
  ASSUME TypeInv, SweepInv, NEW r \in Runners, Raise(r)
  PROVE  SweepInv'
<1>0. runner[r] \in RunnerType
  BY DEF TypeInv, TypeOK
<1>1. CASE runner[r].pc \in HostPhases
  <2>1. runner' = [runner EXCEPT ![r].pc = "cleanup", ![r].raised = TRUE] /\ UNCHANGED
          <<jobs, starting>>
    BY <1>1 DEF Raise, HostPhases, db, memory
  <2>2. Sweeping(r) /\ Sweeping(r)' /\ \A o \in Runners \ {r} : runner'[o] = runner[o]
    BY <1>0, <1>1, <2>1 DEF Sweeping, Phases, HostPhases, RunnerType, TypeInv, TypeOK
  <2> QED
    BY <2>1, <2>2, QuietKeepsSweep DEF Quiet
<1>2. CASE runner[r].pc \notin HostPhases
  <2>1. /\ jobs' = [jobs EXCEPT ![JobOf(r)] = "aborted"]
        /\ runner' = [runner EXCEPT ![r] = IdleRunner] /\ UNCHANGED starting
        /\ Live(r)
    BY <1>2 DEF Raise, memory, Live
  <2> QED
    BY <2>1, EndKeepsSweep DEF JobStatus
<1> QED
  BY <1>1, <1>2

\* A restart brings back the one runner of the one job that was running.
LEMMA RestartKeepsSweep ==
  ASSUME TypeInv, SweepInv, Restart
  PROVE  SweepInv'
<1>1. \A r \in Runners : /\ ~Sweeping(r)'
                         /\ Live(r)' <=> r[2] = 1 /\ jobs[r[1]] = "running"
  BY DEF Restart, Respawn, Sweeping, Live, SpawnedRunner, IdleRunner, Fresh
<1>2. \A q \in Requests : starting'[q] = NoJob
  BY DEF Restart, Respawn
<1>3. UNCHANGED jobs
  BY DEF Restart, Respawn, db
<1>4. \A i, j \in Jobs : jobs[i] = "running" /\ jobs[j] = "running" => i = j
  BY DEF SweepInv
<1>5. ASSUME NEW r1 \in Runners, NEW r2 \in Runners, Live(r1)', Live(r2)'
      PROVE  r1 = r2
  BY <1>1, <1>4, <1>5 DEF Runners
<1>6. ASSUME NEW j \in Jobs, jobs'[j] = "running"
      PROVE  \E r \in Runners : JobOf(r) = j /\ Live(r)'
  <2>1. <<j, 1>> \in Runners
    BY ConstantsOK DEF Runners
  <2>2. Live(<<j, 1>>)'
    BY <1>1, <1>3, <1>6, <2>1
  <2> QED
    BY <2>1, <2>2 DEF JobOf
<1> QED
  BY <1>1, <1>2, <1>5, <1>6 DEF SweepInv

\* A start request is accepted only where no other start and no sweep is.
LEMMA StartCheckKeepsSweep ==
  ASSUME TypeInv, SweepInv, "race" \notin Faults,
         NEW q \in Requests, NEW j \in Jobs, StartCheck(q, j)
  PROVE  SweepInv'
<1>1. \A o \in Requests : starting[o] = NoJob
  BY DEF StartCheck, StartUnderWay
<1>2. \A i \in Jobs : jobs[i] # "running"
  BY DEF StartCheck
<1>3. \A r \in Runners : ~Live(r)
  <2>1. \A r \in Runners : runner[r].pc \notin {"spawned", "read"}
    BY DEF StartCheck, StartUnderWay
  <2>2. \A r \in Runners : ~Sweeping(r)
    BY <1>2, RunnersAreJobs DEF SweepInv
  <2>3. \A r \in Runners : runner[r].pc \in Phases
    BY DEF TypeInv, TypeOK, RunnerType
  <2> QED
    BY <2>1, <2>2, <2>3 DEF Live, Sweeping
<1>4. UNCHANGED <<jobs, runner>> /\ starting' = [starting EXCEPT ![q] = j]
  BY DEF StartCheck, db
<1>5. \A o \in Requests : starting'[o] # NoJob => o = q
  BY <1>1, <1>4 DEF TypeInv, TypeOK
<1> QED
  BY <1>2, <1>3, <1>4, <1>5 DEF SweepInv, Live, Sweeping

LEMMA SpawnKeepsSweep ==
  ASSUME TypeInv, SweepInv, NEW q \in Requests, NEW r \in Runners, StartSpawn(q, r)
  PROVE  SweepInv'
<1>1. JobOf(r) # NoJob
  BY RunnersAreJobs, ConstantsOK
<1>2. \A o \in Runners : ~Live(o)
  BY <1>1 DEF SweepInv, StartSpawn
<1>3. \A j \in Jobs : jobs[j] # "running"
  BY <1>2 DEF SweepInv
<1>4. \A o \in Requests : starting'[o] = NoJob
  BY <1>1 DEF SweepInv, StartSpawn, TypeInv, TypeOK
<1>5. /\ runner'[r].pc = "spawned"
      /\ \A o \in Runners \ {r} : runner'[o] = runner[o]
      /\ UNCHANGED jobs
  BY DEF StartSpawn, SpawnedRunner, Fresh, TypeInv, TypeOK, db
<1>6. \A o \in Runners : ~Sweeping(o)' /\ (Live(o)' => o = r)
  BY <1>2, <1>5 DEF Live, Sweeping
<1> QED
  BY <1>3, <1>4, <1>5, <1>6 DEF SweepInv

LEMMA SweepInit == Init => SweepInv
<1> SUFFICES ASSUME Init
             PROVE  SweepInv
  OBVIOUS
<1>1. \A r \in Runners : ~Live(r) /\ ~Sweeping(r)
  BY DEF Init, Live, Sweeping, IdleRunner, Fresh
<1> QED
  BY <1>1 DEF Init, SweepInv

LEMMA SweepNext ==
  ASSUME "race" \notin Faults
  PROVE  TypeInv /\ SweepInv /\ [Next]_vars => SweepInv'
<1> SUFFICES ASSUME TypeInv, SweepInv, [Next]_vars
             PROVE  SweepInv'
  OBVIOUS
\* Most handlers, the cluster and a stutter touch nothing the invariant reads.
<1>1. ASSUME UNCHANGED <<jobs, starting, runner>>
      PROVE  SweepInv'
  BY <1>1 DEF SweepInv, Live, Sweeping
<1>2. CASE UNCHANGED vars
  BY <1>1, <1>2 DEF vars, db, memory
<1>3. CASE Admin
  <2>1. ASSUME NEW j \in Jobs, NEW o \in JobOptions, CreateJob(j, o)
        PROVE  SweepInv'
    <3>1. jobs[j] = "absent" /\ jobs' = [jobs EXCEPT ![j] = "pending"]
          /\ UNCHANGED <<starting, runner>>
      BY <2>1 DEF CreateJob, memory
    <3>2. \A i \in Jobs : jobs'[i] = "running" <=> jobs[i] = "running"
      BY <3>1 DEF TypeInv, TypeOK
    <3>3. \A r \in Runners : (Live(r)' <=> Live(r)) /\ (Sweeping(r)' <=> Sweeping(r))
      BY <3>1 DEF Live, Sweeping
    <3> QED
      BY <3>1, <3>2, <3>3, RunnersAreJobs DEF SweepInv
  <2>2. ASSUME NEW q \in Requests, NEW j \in Jobs, StartCheck(q, j)
        PROVE  SweepInv'
    BY <2>2, StartCheckKeepsSweep
  <2>3. ASSUME NEW j \in Jobs, AbortJob(j)
        PROVE  SweepInv'
    BY <1>1, <2>3 DEF AbortJob, db
  <2>4. ASSUME NEW j \in Jobs, NEW n \in Nodes, NEW c \in {"reboot", "skip"},
               ConfirmReboot(j, n, c)
        PROVE  SweepInv'
    BY <1>1, <2>4 DEF ConfirmReboot, db
  <2> QED
    BY <1>3, <2>1, <2>2, <2>3, <2>4 DEF Admin
<1>4. ASSUME NEW q \in Requests, NEW r \in Runners, StartSpawn(q, r)
      PROVE  SweepInv'
  BY <1>4, SpawnKeepsSweep
<1>5. ASSUME NEW r \in Runners, RunnerStep(r)
      PROVE  SweepInv'
  BY <1>5, SweepStepKeeps, HostStepQuiet, GuestStepQuiet, QuietKeepsSweep DEF RunnerStep
<1>6. ASSUME NEW r \in Runners, Raise(r)
      PROVE  SweepInv'
  BY <1>6, RaiseKeepsSweep
<1>7. CASE Restart
  BY <1>7, RestartKeepsSweep
<1>8. CASE Environment
  BY <1>1, <1>8 DEF Environment, Poll, CephHeals, NodeGoesDown, NodeComesUp, HaMoves,
                    LateTask, db, memory
<1> QED
  BY <1>2, <1>3, <1>4, <1>5, <1>6, <1>7, <1>8 DEF Next

\* Where start requests do not race, no two sweeps of the cluster ever run at the
\* same time, whatever is aborted, raised or restarted (start_job's busy check
\* and resume_running_jobs_on_startup).
THEOREM OneSweep ==
  ASSUME "race" \notin Faults
  PROVE  Spec => []OneSweepPerCluster
<1>1. SweepInv => OneSweepPerCluster
  BY DEF SweepInv, OneSweepPerCluster, Live, Sweeping
<1>2. TypeInv /\ SweepInv /\ [Next]_vars => TypeInv' /\ SweepInv'
  BY TypeNext, SweepNext
<1>3. Init => TypeInv /\ SweepInv
  BY TypeInit, SweepInit
<1> QED
  BY <1>1, <1>2, <1>3, PTL DEF Spec

-----------------------------------------------------------------------------
(* What a runner owes the cluster: maintenance mode, noout, and a node that *)
(* is up again.                                                             *)

\* The phases of a host before and after its reboot.
Before == {"preflight", "enter_maint", "drain", "evacuate", "moving", "updating", "awaiting"}
After  == {"leave_maint", "starting", "restoring", "ceph"}

\* A runner has duties only while it is at a host; it has set noout only around
\* the reboot, and it has rebooted only from then on.
DutyPhases ==
  \A r \in Runners :
    /\ runner[r].haMaint => runner[r].pc \in HostPhases \cup {"cleanup"}
    /\ runner[r].nooutOn => runner[r].pc \in {"reboot", "polling", "cleanup"}
    /\ runner[r].choice = "reboot" => runner[r].pc \in After \cup {"reboot", "polling", "cleanup"}

\* A runner with no duties, before a step and after it.
Free(r) == ~runner[r].haMaint /\ ~runner[r].nooutOn /\ runner[r].choice # "reboot"

Others(r) == \A other \in Runners \ {r} : runner'[other] = runner[other]

Outside(r) ==
  /\ Free(r) /\ Free(r)' /\ Others(r)
  /\ UNCHANGED <<maint, toldMaint, power>>
  /\ UNCHANGED <<noout, toldNoout>> \/ TryUnsetNoout

\* A step within a host that leaves its duties and the cluster alone.
Plain(r) ==
  /\ Others(r) /\ UNCHANGED <<maint, toldMaint, noout, toldNoout, power>>
  /\ runner'[r].host = runner[r].host /\ runner'[r].choice = runner[r].choice
  /\ runner'[r].haMaint = runner[r].haMaint /\ runner'[r].nooutOn = runner[r].nooutOn
  /\ runner[r].pc \in HostPhases
  /\ \/ runner'[r].pc = "cleanup"
     \/ runner[r].pc \in Before /\ runner'[r].pc \in Before \cup {"starting"}
     \/ runner[r].pc \in After /\ runner'[r].pc \in After

\* A change of a runner's phase, and of locals that are not duties.
LEMMA PlainGoto ==
  ASSUME TypeInv, NEW r \in Runners, NEW x \in RunnerType, runner' = [runner EXCEPT ![r] = x],
         x.host = runner[r].host, x.choice = runner[r].choice,
         x.haMaint = runner[r].haMaint, x.nooutOn = runner[r].nooutOn,
         runner[r].pc \in HostPhases,
         \/ x.pc = "cleanup"
         \/ runner[r].pc \in Before /\ x.pc \in Before \cup {"starting"}
         \/ runner[r].pc \in After /\ x.pc \in After,
         UNCHANGED <<maint, toldMaint, noout, toldNoout, power>>
  PROVE  Plain(r)
BY DEF Plain, Others, TypeInv, TypeOK

LEMMA PlainSteps ==
  ASSUME TypeInv, NEW r \in Runners, HostStep(r)
  PROVE  \/ Plain(r)
         \/ EnterMaintenance(r) \/ EnterMaintenanceFails(r) \/ SkipReboot(r) \/ PrepareReboot(r)
         \/ IssueReboot(r) \/ BackOnline(r) \/ LeaveMaintenance(r)
<1>0. runner[r] \in RunnerType
  BY DEF TypeInv, TypeOK
<1>1. ASSUME NEW p \in Phases, Goto(r, p), runner[r].pc \in HostPhases,
             \/ p = "cleanup"
             \/ runner[r].pc \in Before /\ p \in Before
             \/ runner[r].pc \in After /\ p \in After,
             UNCHANGED <<maint, toldMaint, noout, toldNoout, power>>
      PROVE  Plain(r)
  <2> DEFINE x == [runner[r] EXCEPT !.pc = p]
  <2>1. x \in RunnerType /\ runner' = [runner EXCEPT ![r] = x]
    BY <1>0, <1>1 DEF RunnerType, Goto
  <2>2. /\ x.host = runner[r].host /\ x.choice = runner[r].choice /\ x.pc = p
        /\ x.haMaint = runner[r].haMaint /\ x.nooutOn = runner[r].nooutOn
    BY <1>0 DEF RunnerType
  <2> HIDE DEF x
  <2>3. QED
    BY <1>1, <2>1, <2>2, PlainGoto
<1>2. ASSUME FailHost(r), runner[r].pc \in HostPhases
      PROVE  Plain(r)
  BY <1>1, <1>2 DEF FailHost, ceph, ha, Phases
<1>3. CASE \/ PreflightFails(r) \/ DrainFails(r) \/ Shortfall(r) \/ AptFails(r) \/ AwaitEnds(r)
           \/ RebootTimesOut(r) \/ RestoreFails(r) \/ CephWaitAborted(r)
  BY <1>2, <1>3 DEF PreflightFails, DrainFails, Shortfall, AptFails, AwaitEnds, RebootTimesOut,
                    RestoreFails, CephWaitAborted, At, HostPhases, Phases
<1>4. CASE PreflightPasses(r)
  <2>1. runner[r].pc = "preflight" /\ UNCHANGED <<maint, toldMaint, noout, toldNoout, power>>
    BY <1>4 DEF PreflightPasses, At, ceph, ha
  <2>2. CASE HaServicesOn(Host(r)) = {}
    BY <1>1, <1>4, <2>1, <2>2 DEF PreflightPasses, HostPhases, Phases, Before
  <2>3. CASE HaServicesOn(Host(r)) # {}
    <3> DEFINE x == [runner[r] EXCEPT !.pc = "enter_maint", !.has = HaServicesOn(Host(r))]
    <3>0. HaServicesOn(Host(r)) \subseteq Guests
      BY ConstantsOK DEF HaServicesOn
    <3>4. runner' = [runner EXCEPT ![r] = x]
      BY <1>0, <1>4, <2>3 DEF PreflightPasses, TypeInv, TypeOK
    <3>1. x \in RunnerType /\ runner' = [runner EXCEPT ![r] = x]
      BY <1>0, <3>0, <3>4 DEF RunnerType, Phases
    <3>2. /\ x.host = runner[r].host /\ x.choice = runner[r].choice /\ x.pc = "enter_maint"
          /\ x.haMaint = runner[r].haMaint /\ x.nooutOn = runner[r].nooutOn
      BY <1>0 DEF RunnerType
    <3> HIDE DEF x
    <3>3. QED
      BY <2>1, <3>1, <3>2, PlainGoto DEF HostPhases, Phases, Before
  <2>4. QED
    BY <2>2, <2>3
<1>5. CASE HaDrained(r) \/ Evacuated(r) \/ AptUpgrade(r) \/ Restored(r) \/ HostDone(r)
  BY <1>1, <1>5 DEF HaDrained, Evacuated, AptUpgrade, Restored, HostDone, At, HostPhases, Phases,
                    Before, After, ceph, ha
<1>6. CASE PlanEvacuation(r)
  <2>1. PICK P \in SUBSET Guests, f \in [Guests -> Nodes \cup {NoNode}] :
          runner' = [runner EXCEPT ![r].pc = "moving", ![r].pending = P, ![r].plan = f]
    <3> DEFINE leaving == VmsOnNode(Host(r)) \ (IF InPlace(r) THEN {} ELSE runner[r].has)
    <3>1. PICK place \in [leaving -> IF InPlace(r) THEN {NoNode} ELSE runner[r].targets] :
            runner' = [runner EXCEPT ![r].pc = "moving", ![r].pending = leaving,
               ![r].plan = [g \in Guests |-> IF g \in leaving THEN place[g] ELSE NoNode]]
      BY <1>6 DEF PlanEvacuation
    <3>2. leaving \subseteq Guests
      BY DEF VmsOnNode, TypeInv, TypeOK
    <3>3. \A g \in leaving : place[g] \in Nodes \cup {NoNode}
      BY <1>0 DEF RunnerType
    <3> HIDE DEF leaving
    <3>4. [g \in Guests |-> IF g \in leaving THEN place[g] ELSE NoNode] \in [Guests -> Nodes \cup {NoNode}]
      BY <3>3
    <3>5. QED
      BY <3>1, <3>2, <3>4
  <2> DEFINE x == [runner[r] EXCEPT !.pc = "moving", !.pending = P, !.plan = f]
  <2>2. x \in RunnerType /\ runner' = [runner EXCEPT ![r] = x]
    BY <1>0, <2>1 DEF RunnerType, Phases
  <2>3. /\ x.host = runner[r].host /\ x.choice = runner[r].choice /\ x.pc = "moving"
        /\ x.haMaint = runner[r].haMaint /\ x.nooutOn = runner[r].nooutOn
    BY <1>0 DEF RunnerType
  <2> HIDE DEF x
  <2>4. runner[r].pc = "evacuate" /\ UNCHANGED <<maint, toldMaint, noout, toldNoout, power>>
    BY <1>6 DEF PlanEvacuation, At, ceph, ha
  <2>5. QED
    BY <2>2, <2>3, <2>4, PlainGoto DEF HostPhases, Phases, Before
<1>7. CASE EvacuationFails(r)
  <2>1. runner[r].pc = "moving" /\ UNCHANGED <<maint, toldMaint, noout, toldNoout, power>>
    BY <1>7 DEF EvacuationFails, At, ceph, ha
  <2>2. CASE ~InPlace(r)
    BY <1>1, <1>7, <2>1, <2>2 DEF EvacuationFails, HostPhases, Phases
  <2>3. CASE InPlace(r)
    <3> DEFINE x == [runner[r] EXCEPT !.pc = "starting", !.pending = runner[r].moved]
    <3>1. x \in RunnerType /\ runner' = [runner EXCEPT ![r] = x]
      BY <1>0, <1>7, <2>3 DEF EvacuationFails, RunnerType, Phases
    <3>2. /\ x.host = runner[r].host /\ x.choice = runner[r].choice /\ x.pc = "starting"
          /\ x.haMaint = runner[r].haMaint /\ x.nooutOn = runner[r].nooutOn
      BY <1>0 DEF RunnerType
    <3> HIDE DEF x
    <3>3. QED
      BY <2>1, <3>1, <3>2, PlainGoto DEF HostPhases, Phases, Before
  <2>4. QED
    BY <2>2, <2>3
<1>8. CASE GuestsStarted(r)
  BY <1>1, <1>8 DEF GuestsStarted, At, HostPhases, Phases, After, ceph, ha
<1>9. QED
  BY <1>3, <1>4, <1>5, <1>6, <1>7, <1>8 DEF HostStep

LEMMA PlainGuests ==
  ASSUME TypeInv, NEW r \in Runners, NEW g \in Guests, GuestStep(r, g)
  PROVE  Plain(r)
<1>0. runner[r] \in RunnerType
  BY DEF TypeInv, TypeOK
<1>1. /\ runner[r].pc \in {"moving", "starting", "restoring"}
      /\ UNCHANGED <<maint, toldMaint, noout, toldNoout, power>>
  BY DEF GuestStep, MoveGuest, MoveGuestFails, StartGuest, RestoreGuest, RestoreGuestFails, At, ceph, ha
<1>2. PICK P \in SUBSET Guests, M \in SUBSET Guests, b \in BOOLEAN :
        runner' = [runner EXCEPT ![r] = [runner[r] EXCEPT !.pending = P, !.moved = M, !.bad = b]]
  <2>1. ASSUME NEW ok \in BOOLEAN, Handled(r, g, ok)
        PROVE  \E P \in SUBSET Guests, M \in SUBSET Guests, b \in BOOLEAN :
                 runner' = [runner EXCEPT ![r] = [runner[r] EXCEPT !.pending = P, !.moved = M, !.bad = b]]
    <3> DEFINE P == runner[r].pending \ {g}
               M == IF ok THEN runner[r].moved \cup {g} ELSE runner[r].moved
               b == runner[r].bad \/ ~ok
    <3>1. P \in SUBSET Guests /\ M \in SUBSET Guests /\ b \in BOOLEAN
      BY <1>0 DEF RunnerType
    <3>2. runner' = [runner EXCEPT ![r] = [runner[r] EXCEPT !.pending = P, !.moved = M, !.bad = b]]
      BY <1>0, <2>1 DEF Handled, RunnerType
    <3>3. QED
      BY <3>1, <3>2
  <2>2. CASE MoveGuest(r, g) \/ MoveGuestFails(r, g)
    BY <2>1, <2>2 DEF MoveGuest, MoveGuestFails
  <2>3. ASSUME NEW b \in {runner[r].bad, TRUE},
               \/ runner' = [runner EXCEPT ![r].pending = @ \ {g}] /\ b = runner[r].bad
               \/ runner' = [runner EXCEPT ![r].pending = @ \ {g}, ![r].bad = TRUE] /\ b = TRUE
        PROVE  \E P \in SUBSET Guests, M \in SUBSET Guests, c \in BOOLEAN :
                 runner' = [runner EXCEPT ![r] = [runner[r] EXCEPT !.pending = P, !.moved = M, !.bad = c]]
    <3> DEFINE P == runner[r].pending \ {g}
               M == runner[r].moved
    <3>1. P \in SUBSET Guests /\ M \in SUBSET Guests /\ b \in BOOLEAN
      BY <1>0 DEF RunnerType
    <3>2. runner' = [runner EXCEPT ![r] = [runner[r] EXCEPT !.pending = P, !.moved = M, !.bad = b]]
      BY <1>0, <2>3 DEF RunnerType
    <3>3. QED
      BY <3>1, <3>2
  <2>4. CASE StartGuest(r, g) \/ RestoreGuest(r, g) \/ RestoreGuestFails(r, g)
    BY <2>3, <2>4 DEF StartGuest, RestoreGuest, RestoreGuestFails
  <2>5. QED
    BY <2>2, <2>4 DEF GuestStep
<1> DEFINE x == [runner[r] EXCEPT !.pending = P, !.moved = M, !.bad = b]
<1>3. /\ x \in RunnerType /\ x.host = runner[r].host /\ x.choice = runner[r].choice /\ x.pc = runner[r].pc
      /\ x.haMaint = runner[r].haMaint /\ x.nooutOn = runner[r].nooutOn
  BY <1>0 DEF RunnerType
<1> HIDE DEF x
<1>4. QED
  BY <1>1, <1>2, <1>3, PlainGoto DEF HostPhases, Phases, Before, After, x

\* A runner that is not at a host has no duties, nor after the step.
LEMMA OutsideSteps ==
  ASSUME TypeInv, DutyPhases, NEW r \in Runners, SweepStep(r), ~Cleanup(r)
  PROVE  Outside(r)
<1>0. runner[r] \in RunnerType
  BY DEF TypeInv, TypeOK
<1>1. runner[r].pc \in {"spawned", "read", "marked", "loop", "finish"}
  BY DEF SweepStep, ReadJob, MarkRunning, ClusterMissing, DetectCeph, LeaveLoop, SkipHost,
         FailInterrupted, NoTarget, BeginHost, FinishJob, NextIs, At
<1>2. Free(r)
  BY <1>1 DEF DutyPhases, Free, HostPhases, Phases, After
<1>3. UNCHANGED <<maint, toldMaint, power>> /\ (UNCHANGED <<noout, toldNoout>> \/ TryUnsetNoout)
  BY DEF SweepStep, ReadJob, MarkRunning, ClusterMissing, DetectCeph, LeaveLoop, SkipHost,
         FailInterrupted, NoTarget, BeginHost, FinishJob, ceph, ha
<1>4. Others(r)
  BY DEF SweepStep, ReadJob, MarkRunning, ClusterMissing, DetectCeph, LeaveLoop, SkipHost,
         FailInterrupted, NoTarget, BeginHost, FinishJob, Goto, Others, TypeInv, TypeOK
<1>5. Free(r)'
  <2>1. CASE ReadJob(r) \/ ClusterMissing(r) \/ FinishJob(r)
    BY <2>1 DEF ReadJob, ClusterMissing, FinishJob, IdleRunner, Fresh, Free, TypeInv, TypeOK
  <2>2. CASE MarkRunning(r) \/ LeaveLoop(r)
    <3>1. PICK p \in {"marked", "finish"} : runner' = [runner EXCEPT ![r].pc = p]
      BY <2>2 DEF MarkRunning, LeaveLoop, Goto
    <3>2. QED
      BY <1>0, <1>2, <3>1 DEF Free, TypeInv, TypeOK, RunnerType
  <2>3. CASE DetectCeph(r)
    <3>1. PICK gate : runner' = [runner EXCEPT ![r].pc = "loop", ![r].gate = gate]
      BY <2>3 DEF DetectCeph
    <3>2. QED
      BY <1>0, <1>2, <3>1 DEF Free, TypeInv, TypeOK, RunnerType
  <2>4. CASE SkipHost(r) \/ FailInterrupted(r) \/ NoTarget(r)
    <3>1. runner' = [runner EXCEPT ![r].todo = Tail(@)]
      BY <2>4 DEF SkipHost, FailInterrupted, NoTarget
    <3>2. QED
      BY <1>0, <1>2, <3>1 DEF Free, TypeInv, TypeOK, RunnerType
  <2>5. CASE BeginHost(r)
    <3>1. PICK h, targets : runner' = [runner EXCEPT ![r].pc = "preflight", ![r].todo = Tail(@),
                                                     ![r].host = h, ![r].targets = targets]
      BY <2>5 DEF BeginHost
    <3>2. QED
      BY <1>0, <1>2, <3>1 DEF Free, TypeInv, TypeOK, RunnerType
  <2>6. QED
    BY <2>1, <2>2, <2>3, <2>4, <2>5 DEF SweepStep
<1>6. QED
  BY <1>2, <1>3, <1>4, <1>5 DEF Outside

LEMMA OutsideSpawns ==
  ASSUME TypeInv, DutyPhases, NEW q \in Requests, NEW r \in Runners, StartSpawn(q, r)
  PROVE  Outside(r)
BY DEF StartSpawn, At, SpawnedRunner, Fresh, Outside, Others, Free, DutyPhases, HostPhases, Phases, After,
       ceph, ha, TypeInv, TypeOK

LEMMA RaiseKinds ==
  ASSUME TypeInv, DutyPhases, NEW r \in Runners, Raise(r)
  PROVE  Plain(r) \/ Outside(r)
<1>0. runner[r] \in RunnerType /\ UNCHANGED <<maint, toldMaint, noout, toldNoout, power>>
  BY DEF TypeInv, TypeOK, Raise, ceph, ha
<1>1. CASE runner[r].pc \in HostPhases
  <2> DEFINE x == [runner[r] EXCEPT !.pc = "cleanup", !.raised = TRUE]
  <2>1. x \in RunnerType /\ runner' = [runner EXCEPT ![r] = x]
    BY <1>0, <1>1 DEF Raise, RunnerType, HostPhases, Phases
  <2>2. /\ x.host = runner[r].host /\ x.choice = runner[r].choice /\ x.pc = "cleanup"
        /\ x.haMaint = runner[r].haMaint /\ x.nooutOn = runner[r].nooutOn
    BY <1>0 DEF RunnerType
  <2> HIDE DEF x
  <2>3. QED
    BY <1>0, <1>1, <2>1, <2>2, PlainGoto
<1>2. CASE runner[r].pc \notin HostPhases
  <2>1. runner[r].pc \in {"spawned", "read", "marked", "loop", "finish"} /\ runner' = [runner EXCEPT ![r] = IdleRunner]
    BY <1>2 DEF Raise
  <2>2. QED
    BY <1>0, <2>1 DEF Outside, Others, Free, DutyPhases, IdleRunner, Fresh, HostPhases, Phases, After,
                      TypeInv, TypeOK
<1>3. QED
  BY <1>1, <1>2

\* A step of the admin, or of the cluster by itself: no runner moves, and a node
\* that is up stays up.
Aside ==
  /\ UNCHANGED <<runner, maint, toldMaint, noout, toldNoout>>
  /\ \A n \in Nodes : power[n] = "up" => power'[n] = "up"

\* The steps of a runner that change a duty.
DutyStep(r) ==
  \/ EnterMaintenance(r) \/ EnterMaintenanceFails(r) \/ SkipReboot(r) \/ PrepareReboot(r)
  \/ IssueReboot(r) \/ BackOnline(r) \/ LeaveMaintenance(r) \/ Cleanup(r)

LEMMA StepKinds ==
  ASSUME TypeInv, DutyPhases, [Next]_vars
  PROVE  Restart \/ Aside \/ \E r \in Runners : Plain(r) \/ Outside(r) \/ DutyStep(r)
<1>1. CASE UNCHANGED vars
  BY <1>1 DEF vars, Aside, ceph, ha
<1>2. CASE Admin
  BY <1>2 DEF Admin, CreateJob, StartCheck, AbortJob, ConfirmReboot, Aside, ceph, ha
<1>3. CASE Environment
  BY <1>3 DEF Environment, Poll, CephHeals, NodeGoesDown, NodeComesUp, HaMoves, LateTask, Aside,
              ceph, ha, TypeInv, TypeOK
<1>4. ASSUME NEW q \in Requests, NEW r \in Runners, StartSpawn(q, r)
      PROVE  Outside(r)
  BY <1>4, OutsideSpawns
<1>5. ASSUME NEW r \in Runners, RunnerStep(r)
      PROVE  Plain(r) \/ Outside(r) \/ DutyStep(r)
  BY <1>5, PlainSteps, PlainGuests, OutsideSteps DEF RunnerStep, DutyStep
<1>6. ASSUME NEW r \in Runners, Raise(r)
      PROVE  Plain(r) \/ Outside(r)
  BY <1>6, RaiseKinds
<1>7. QED
  BY <1>1, <1>2, <1>3, <1>4, <1>5, <1>6 DEF Next

\* What the steps that change a duty do to the runner: its phase before and after,
\* and its duties after.
Becomes(r, before, after, haMaint, nooutOn, choice) ==
  /\ Others(r)
  /\ runner[r].pc = before /\ runner'[r].pc \in after
  /\ runner'[r].host = runner[r].host
  /\ runner'[r].haMaint = haMaint /\ runner'[r].nooutOn = nooutOn
  /\ runner'[r].choice = choice

LEMMA DutyEffects ==
  ASSUME TypeInv, NEW r \in Runners
  PROVE  LET x == runner[r] IN
         /\ EnterMaintenance(r) =>
              Becomes(r, "enter_maint", {"drain"}, TRUE, x.nooutOn, x.choice)
         /\ EnterMaintenanceFails(r) =>
              Becomes(r, "enter_maint", {"cleanup"}, x.haMaint, x.nooutOn, x.choice)
         /\ SkipReboot(r) =>
              Becomes(r, "awaiting", {"leave_maint"}, x.haMaint, x.nooutOn, "skip")
         /\ PrepareReboot(r) =>
              Becomes(r, "awaiting", {"reboot"}, x.haMaint, x.gate, "reboot")
         /\ IssueReboot(r) =>
              Becomes(r, "reboot", {"polling"}, x.haMaint, x.nooutOn, x.choice)
         /\ BackOnline(r) =>
              Becomes(r, "polling", {"leave_maint"}, x.haMaint, FALSE, x.choice)
<1>0. runner[r] \in RunnerType
  BY DEF TypeInv, TypeOK
<1> USE <1>0 DEF Becomes, Others, TypeInv, TypeOK, RunnerType, At
<1>1. EnterMaintenance(r) =>
        Becomes(r, "enter_maint", {"drain"}, TRUE, runner[r].nooutOn, runner[r].choice)
  BY DEF EnterMaintenance
<1>2. EnterMaintenanceFails(r) =>
        Becomes(r, "enter_maint", {"cleanup"}, runner[r].haMaint, runner[r].nooutOn, runner[r].choice)
  BY DEF EnterMaintenanceFails, Goto
<1>3. SkipReboot(r) =>
        Becomes(r, "awaiting", {"leave_maint"}, runner[r].haMaint, runner[r].nooutOn, "skip")
  BY DEF SkipReboot
<1>4. PrepareReboot(r) =>
        Becomes(r, "awaiting", {"reboot"}, runner[r].haMaint, runner[r].gate, "reboot")
  BY DEF PrepareReboot
<1>5. IssueReboot(r) =>
        Becomes(r, "reboot", {"polling"}, runner[r].haMaint, runner[r].nooutOn, runner[r].choice)
  BY DEF IssueReboot, Goto
<1>6. BackOnline(r) =>
        Becomes(r, "polling", {"leave_maint"}, runner[r].haMaint, FALSE, runner[r].choice)
  BY DEF BackOnline
<1>7. QED
  BY <1>1, <1>2, <1>3, <1>4, <1>5, <1>6

\* Leaving maintenance, and the end of a host.
LEMMA LeaveEffects ==
  ASSUME TypeInv, NEW r \in Runners, LeaveMaintenance(r)
  PROVE  \E left \in (IF runner[r].haMaint THEN BOOLEAN ELSE {FALSE}) :
           /\ Becomes(r, "leave_maint", {"starting", "restoring", "ceph"},
                      runner[r].haMaint /\ ~left, runner[r].nooutOn, runner[r].choice)
           /\ maint' = IF left THEN maint \ {Host(r)} ELSE maint
<1>0. runner[r] \in RunnerType
  BY DEF TypeInv, TypeOK
<1>1. PICK left \in (IF runner[r].haMaint THEN BOOLEAN ELSE {FALSE}) :
        /\ maint' = IF left THEN maint \ {Host(r)} ELSE maint
        /\ runner' = [runner EXCEPT ![r].pc = AfterReboot(r).pc,
                                    ![r].pending = AfterReboot(r).pending,
                                    ![r].haMaint = @ /\ ~left]
  BY DEF LeaveMaintenance
<1>2. AfterReboot(r).pc \in {"starting", "restoring", "ceph"} /\ runner[r].pc = "leave_maint"
  BY DEF AfterReboot, LeaveMaintenance, At
<1>3. Becomes(r, "leave_maint", {"starting", "restoring", "ceph"},
              runner[r].haMaint /\ ~left, runner[r].nooutOn, runner[r].choice)
  BY <1>0, <1>1, <1>2 DEF Becomes, Others, TypeInv, TypeOK, RunnerType
<1>4. QED
  BY <1>1, <1>3

LEMMA CleanupEffects ==
  ASSUME TypeInv, NEW r \in Runners, Cleanup(r)
  PROVE  Others(r) /\ runner[r].pc = "cleanup" /\ Free(r)'
<1>1. PICK x : runner' = [runner EXCEPT ![r] = x] /\ ~x.haMaint /\ ~x.nooutOn /\ x.choice # "reboot"
  <2>1. CASE runner[r].raised
    <3>1. runner' = [runner EXCEPT ![r] = IdleRunner]
      BY <2>1 DEF Cleanup
    <3>2. ~IdleRunner.haMaint /\ ~IdleRunner.nooutOn /\ IdleRunner.choice # "reboot"
      BY DEF IdleRunner, Fresh
    <3>3. QED
      BY <3>1, <3>2
  <2>2. CASE ~runner[r].raised
    BY <2>2 DEF Cleanup, Fresh, TypeInv, TypeOK
  <2>3. QED
    BY <2>1, <2>2
<1>2. QED
  BY <1>1 DEF Cleanup, At, Others, Free, TypeInv, TypeOK

LEMMA RestartFrees ==
  ASSUME Restart, NEW r \in Runners
  PROVE  Free(r)'
BY DEF Restart, Respawn, Free, IdleRunner, SpawnedRunner, Fresh

\* DutyPhases is inductive.
LEMMA DutyNext ==
  TypeInv /\ DutyPhases /\ [Next]_vars => DutyPhases'
<1> SUFFICES ASSUME TypeInv, DutyPhases, [Next]_vars
             PROVE  DutyPhases'
  OBVIOUS
<1> DEFINE Fits(r) ==
      /\ runner[r].haMaint => runner[r].pc \in HostPhases \cup {"cleanup"}
      /\ runner[r].nooutOn => runner[r].pc \in {"reboot", "polling", "cleanup"}
      /\ runner[r].choice = "reboot" => runner[r].pc \in After \cup {"reboot", "polling", "cleanup"}
<1>1. ASSUME NEW r \in Runners, Others(r), Fits(r)'
      PROVE  DutyPhases'
  BY <1>1 DEF DutyPhases, Others
<1>2. CASE Restart
  BY <1>2, RestartFrees DEF DutyPhases, Free
<1>3. CASE Aside
  BY <1>3 DEF DutyPhases, Aside
<1>4. ASSUME NEW r \in Runners, Plain(r)
      PROVE  DutyPhases'
  BY <1>1, <1>4 DEF Plain, DutyPhases, HostPhases, Phases, Before, After
<1>5. ASSUME NEW r \in Runners, Outside(r) \/ Cleanup(r)
      PROVE  DutyPhases'
  BY <1>1, <1>5, CleanupEffects DEF Outside, Free
<1>6. ASSUME NEW r \in Runners, DutyStep(r), ~Cleanup(r)
      PROVE  DutyPhases'
  <2>1. CASE LeaveMaintenance(r)
    BY <1>1, <2>1, LeaveEffects DEF Becomes, DutyPhases, HostPhases, Phases, After
  <2>2. CASE ~LeaveMaintenance(r)
    BY <1>1, <1>6, <2>2, DutyEffects DEF DutyStep, Becomes, DutyPhases, HostPhases, Phases, After
  <2>3. QED
    BY <2>1, <2>2
<1>7. QED
  BY <1>2, <1>3, <1>4, <1>5, <1>6, StepKinds

LEMMA DutyInit == Init => DutyPhases
BY DEF Init, IdleRunner, Fresh, DutyPhases

-----------------------------------------------------------------------------

\* noout has an owner after a step of a runner if the runner, or another one, had
\* it before and has it still.
LEMMA NooutNext ==
  ASSUME MaxRestarts = 0
  PROVE  TypeInv /\ DutyPhases /\ NooutAccounted /\ [Next]_vars => NooutAccounted'
<1> SUFFICES ASSUME TypeInv, DutyPhases, NooutAccounted, [Next]_vars
             PROVE  NooutAccounted'
  OBVIOUS
<1>1. ASSUME NEW r \in Runners, Others(r), UNCHANGED <<noout, toldNoout>>,
             runner[r].nooutOn => runner'[r].nooutOn
      PROVE  NooutAccounted'
  BY <1>1 DEF NooutAccounted, Others
<1>2. ASSUME TryUnsetNoout
      PROVE  NooutAccounted'
  BY <1>2 DEF TryUnsetNoout, NooutAccounted
<1>3. CASE Restart
  BY <1>3 DEF Restart, Respawn, TypeInv, TypeOK
<1>4. CASE Aside
  BY <1>4 DEF Aside, NooutAccounted
<1>5. ASSUME NEW r \in Runners, Plain(r)
      PROVE  NooutAccounted'
  BY <1>1, <1>5 DEF Plain
<1>6. ASSUME NEW r \in Runners, Outside(r)
      PROVE  NooutAccounted'
  BY <1>1, <1>2, <1>6 DEF Outside, Free
<1>7. ASSUME NEW r \in Runners, DutyStep(r)
      PROVE  NooutAccounted'
  <2>1. CASE EnterMaintenance(r) \/ EnterMaintenanceFails(r) \/ SkipReboot(r) \/ IssueReboot(r)
    <3>1. UNCHANGED <<noout, toldNoout>>
      BY <2>1 DEF EnterMaintenance, EnterMaintenanceFails, SkipReboot, IssueReboot, ceph
    <3>2. QED
      BY <1>1, <2>1, <3>1, DutyEffects DEF Becomes
  <2>2. CASE PrepareReboot(r)
    <3>1. /\ Others(r) /\ runner'[r].nooutOn = runner[r].gate /\ ~runner[r].nooutOn
          /\ UNCHANGED toldNoout
      BY <2>2, DutyEffects DEF Becomes, PrepareReboot, DutyPhases
    <3>2. CASE runner[r].gate
      BY <3>1, <3>2 DEF NooutAccounted
    <3>3. CASE ~runner[r].gate
      <4>1. UNCHANGED noout
        BY <2>2, <3>3 DEF PrepareReboot
      <4>2. QED
        BY <1>1, <3>1, <4>1
    <3>4. QED
      BY <3>2, <3>3
  <2>3. CASE BackOnline(r)
    <3>1. Others(r)
      BY <2>3, DutyEffects DEF Becomes
    <3>2. CASE runner[r].nooutOn
      BY <1>2, <2>3, <3>2 DEF BackOnline
    <3>3. CASE ~runner[r].nooutOn
      <4>1. UNCHANGED <<noout, toldNoout>>
        BY <2>3, <3>3 DEF BackOnline
      <4>2. QED
        BY <1>1, <3>1, <3>3, <4>1
    <3>4. QED
      BY <3>2, <3>3
  <2>4. CASE LeaveMaintenance(r)
    BY <1>1, <2>4, LeaveEffects DEF Becomes, LeaveMaintenance, ceph
  <2>5. CASE Cleanup(r)
    <3>1. Others(r)
      BY <2>5, CleanupEffects
    <3>2. CASE runner[r].nooutOn
      BY <1>2, <2>5, <3>2 DEF Cleanup
    <3>3. CASE ~runner[r].nooutOn
      <4>1. UNCHANGED <<noout, toldNoout>>
        BY <2>5, <3>3 DEF Cleanup
      <4>2. QED
        BY <1>1, <3>1, <3>3, <4>1
    <3>4. QED
      BY <3>2, <3>3
  <2>6. QED
    BY <1>7, <2>1, <2>2, <2>3, <2>4, <2>5 DEF DutyStep
<1>8. QED
  BY <1>3, <1>4, <1>5, <1>6, <1>7, StepKinds

\* While the daemon lives, noout is set only as long as some runner knows that it
\* has to unset it, or the operator knows; a restart forgets (nooutOn is a local).
THEOREM NooutOwned ==
  ASSUME MaxRestarts = 0
  PROVE  Spec => []NooutAccounted
<1>1. Init => TypeInv /\ DutyPhases /\ NooutAccounted
  BY TypeInit, DutyInit DEF Init, NooutAccounted
<1>2. TypeInv /\ DutyPhases /\ NooutAccounted /\ [Next]_vars
        => TypeInv' /\ DutyPhases' /\ NooutAccounted'
  BY TypeNext, DutyNext, NooutNext
<1>3. QED
  BY <1>1, <1>2, PTL DEF Spec

LEMMA MaintenanceNext ==
  ASSUME MaxRestarts = 0, "lostreply" \notin Faults
  PROVE  TypeInv /\ DutyPhases /\ MaintenanceAccounted /\ [Next]_vars => MaintenanceAccounted'
<1> SUFFICES ASSUME TypeInv, DutyPhases, MaintenanceAccounted, [Next]_vars
             PROVE  MaintenanceAccounted'
  OBVIOUS
\* What is in maintenance after the step was so before, and has the same owner.
<1>1. ASSUME NEW r \in Runners, Others(r), maint' \subseteq maint, toldMaint \subseteq toldMaint',
             Host(r) \in maint' /\ runner[r].haMaint =>
               Host(r) \in toldMaint' \/ (Host(r)' = Host(r) /\ runner'[r].haMaint)
      PROVE  MaintenanceAccounted'
  <2>1. SUFFICES ASSUME NEW n \in maint', n \notin toldMaint'
                 PROVE  \E s \in Runners : Host(s)' = n /\ runner'[s].haMaint
    BY DEF MaintenanceAccounted
  <2>2. PICK s \in Runners : Host(s) = n /\ runner[s].haMaint
    BY <1>1, <2>1 DEF MaintenanceAccounted
  <2>3. CASE s = r
    BY <1>1, <2>1, <2>2, <2>3
  <2>4. CASE s # r
    <3>1. runner'[s] = runner[s]
      BY <1>1, <2>4 DEF Others
    <3>2. QED
      BY <2>2, <3>1 DEF Host
  <2>5. QED
    BY <2>3, <2>4
<1>3. CASE Restart
  BY <1>3 DEF Restart, Respawn, TypeInv, TypeOK
<1>4. CASE Aside
  BY <1>4 DEF Aside, MaintenanceAccounted, Host
<1>5. ASSUME NEW r \in Runners, Plain(r)
      PROVE  MaintenanceAccounted'
  BY <1>1, <1>5 DEF Plain, Host
<1>6. ASSUME NEW r \in Runners, Outside(r)
      PROVE  MaintenanceAccounted'
  BY <1>1, <1>6 DEF Outside, Free
<1>7. ASSUME NEW r \in Runners, DutyStep(r)
      PROVE  MaintenanceAccounted'
  <2>1. CASE EnterMaintenance(r)
    <3>1. /\ Others(r) /\ runner'[r].host = runner[r].host /\ runner'[r].haMaint
          /\ maint' = maint \cup {Host(r)} /\ UNCHANGED toldMaint
      BY <2>1, DutyEffects DEF Becomes, EnterMaintenance
    <3>2. ASSUME NEW n \in maint', n \notin toldMaint'
          PROVE  \E s \in Runners : Host(s)' = n /\ runner'[s].haMaint
      <4>1. CASE n = Host(r)
        BY <3>1, <4>1 DEF Host
      <4>2. CASE n # Host(r)
        <5>1. PICK s \in Runners : Host(s) = n /\ runner[s].haMaint
          BY <3>1, <3>2, <4>2 DEF MaintenanceAccounted
        <5>2. runner'[s] = runner[s]
          BY <3>1, <4>2, <5>1 DEF Others
        <5>3. QED
          BY <5>1, <5>2 DEF Host
      <4>3. QED
        BY <4>1, <4>2
    <3>3. QED
      BY <3>2 DEF MaintenanceAccounted
  <2>2. CASE EnterMaintenanceFails(r) \/ SkipReboot(r) \/ PrepareReboot(r) \/ IssueReboot(r)
             \/ BackOnline(r)
    <3>1. UNCHANGED <<maint, toldMaint>>
      BY <2>2 DEF EnterMaintenanceFails, SkipReboot, PrepareReboot, IssueReboot, BackOnline, ha
    <3>2. /\ Others(r) /\ runner'[r].host = runner[r].host
          /\ runner'[r].haMaint = runner[r].haMaint
      BY <2>2, DutyEffects DEF Becomes
    <3>3. QED
      BY <1>1, <3>1, <3>2 DEF Host
  <2>3. CASE LeaveMaintenance(r)
    <3>1. PICK left \in BOOLEAN :
            /\ Becomes(r, "leave_maint", {"starting", "restoring", "ceph"},
                       runner[r].haMaint /\ ~left, runner[r].nooutOn, runner[r].choice)
            /\ maint' = IF left THEN maint \ {Host(r)} ELSE maint
      BY <2>3, LeaveEffects
    <3>2. UNCHANGED toldMaint
      BY <2>3 DEF LeaveMaintenance
    <3>3. QED
      BY <1>1, <3>1, <3>2 DEF Becomes, Host
  <2>4. CASE Cleanup(r)
    <3>0. Others(r)
      BY <2>4, CleanupEffects
    <3>1. \/ maint' = maint \ {Host(r)} /\ UNCHANGED toldMaint
          \/ UNCHANGED maint /\ toldMaint' = toldMaint \cup {Host(r)}
          \/ ~runner[r].haMaint /\ UNCHANGED <<maint, toldMaint>>
      BY <2>4 DEF Cleanup, ha
    <3>2. /\ maint' \subseteq maint /\ toldMaint \subseteq toldMaint'
          /\ Host(r) \in maint' /\ runner[r].haMaint => Host(r) \in toldMaint'
      BY <3>1
    <3>3. QED
      BY <1>1, <3>0, <3>2
  <2>5. QED
    BY <1>7, <2>1, <2>2, <2>3, <2>4 DEF DutyStep
<1>8. QED
  BY <1>3, <1>4, <1>5, <1>6, <1>7, StepKinds

\* While the daemon lives, and unless the reply to the command that enters it is
\* lost, a node is in HA maintenance only as long as some runner knows that it
\* has to take it out, or the operator knows (_run_single_host's finally clause).
THEOREM MaintenanceOwned ==
  ASSUME MaxRestarts = 0, "lostreply" \notin Faults
  PROVE  Spec => []MaintenanceAccounted
<1>1. Init => TypeInv /\ DutyPhases /\ MaintenanceAccounted
  BY TypeInit, DutyInit DEF Init, MaintenanceAccounted
<1>2. TypeInv /\ DutyPhases /\ MaintenanceAccounted /\ [Next]_vars
        => TypeInv' /\ DutyPhases' /\ MaintenanceAccounted'
  BY TypeNext, DutyNext, MaintenanceNext
<1>3. QED
  BY <1>1, <1>2, PTL DEF Spec

\* With one runner alive, no other runner reboots the node it has come back to.
LEMMA BackNext ==
  ASSUME "slowdown" \notin Faults
  PROVE  TypeInv /\ SweepInv /\ DutyPhases /\ BackOnlineMeansUp /\ [Next]_vars
           => BackOnlineMeansUp'
<1> SUFFICES ASSUME TypeInv, SweepInv, DutyPhases, BackOnlineMeansUp, [Next]_vars
             PROVE  BackOnlineMeansUp'
  OBVIOUS
<1> DEFINE Back(r) == runner[r].pc \in After /\ runner[r].choice = "reboot" => power[Host(r)] = "up"
<1>0. /\ BackOnlineMeansUp <=> \A r \in Runners : Back(r)
      /\ BackOnlineMeansUp' <=> \A r \in Runners : Back(r)'
  BY DEF BackOnlineMeansUp, After
<1>1. ASSUME NEW r \in Runners, Others(r), UNCHANGED power, Back(r)'
      PROVE  BackOnlineMeansUp'
  BY <1>0, <1>1 DEF Others, Host
<1>2. CASE Restart
  BY <1>0, <1>2, RestartFrees DEF Free
<1>3. CASE Aside
  <2>1. ASSUME NEW r \in Runners, runner[r].pc \in After
        PROVE  Host(r) \in Nodes
    BY <2>1 DEF TypeInv, HostKnown, After, HostPhases, Phases, Host
  <2>2. QED
    BY <1>0, <1>3, <2>1 DEF Aside, Host
<1>4. ASSUME NEW r \in Runners, Plain(r)
      PROVE  BackOnlineMeansUp'
  <2>1. CASE runner[r].pc \in After
    BY <1>0, <1>1, <1>4, <2>1 DEF Plain, Host
  <2>2. CASE runner[r].pc \notin After /\ runner'[r].choice # "reboot"
    BY <1>1, <1>4, <2>2 DEF Plain
  <2>3. CASE runner'[r].pc = "cleanup"
    BY <1>1, <1>4, <2>3 DEF Plain, After
  <2>4. CASE runner[r].pc \in Before
    BY <1>4, <2>2, <2>4 DEF Plain, DutyPhases, Before, After
  <2>5. QED
    BY <1>4, <2>1, <2>3, <2>4 DEF Plain
<1>5. ASSUME NEW r \in Runners, Outside(r)
      PROVE  BackOnlineMeansUp'
  BY <1>1, <1>5 DEF Outside, Free
<1>6. ASSUME NEW r \in Runners, DutyStep(r)
      PROVE  BackOnlineMeansUp'
  <2>1. CASE EnterMaintenance(r) \/ EnterMaintenanceFails(r) \/ SkipReboot(r) \/ PrepareReboot(r)
    <3>1. UNCHANGED power
      BY <2>1 DEF EnterMaintenance, EnterMaintenanceFails, SkipReboot, PrepareReboot
    <3>2. Others(r) /\ (runner'[r].pc \in {"drain", "cleanup", "reboot"} \/ runner'[r].choice = "skip")
      BY <2>1, DutyEffects DEF Becomes
    <3>3. QED
      BY <1>1, <3>1, <3>2 DEF After
  <2>2. CASE IssueReboot(r)
    <3>1. Others(r) /\ runner[r].pc = "reboot" /\ runner'[r].pc = "polling"
      BY <2>2, DutyEffects DEF Becomes
    <3>2. ASSUME NEW s \in Runners
          PROVE  runner'[s].pc \notin After
      BY <3>1 DEF SweepInv, Live, Others, After
    <3>3. QED
      BY <1>0, <3>2
  <2>3. CASE BackOnline(r)
    <3>1. power[Host(r)] = "up" /\ UNCHANGED power
      BY <2>3 DEF BackOnline, Answers
    <3>2. Others(r) /\ runner'[r].host = runner[r].host
      BY <2>3, DutyEffects DEF Becomes
    <3>3. QED
      BY <1>1, <3>1, <3>2 DEF Host
  <2>4. CASE LeaveMaintenance(r)
    <3>1. /\ Others(r) /\ runner[r].pc = "leave_maint" /\ runner'[r].host = runner[r].host
          /\ runner'[r].choice = runner[r].choice
      BY <2>4, LeaveEffects DEF Becomes
    <3>2. UNCHANGED power
      BY <2>4 DEF LeaveMaintenance
    <3>3. QED
      BY <1>0, <1>1, <3>1, <3>2 DEF Host, After
  <2>5. CASE Cleanup(r)
    <3>1. UNCHANGED power
      BY <2>5 DEF Cleanup
    <3>2. QED
      BY <1>1, <2>5, <3>1, CleanupEffects DEF Free
  <2>6. QED
    BY <1>6, <2>1, <2>2, <2>3, <2>4, <2>5 DEF DutyStep
<1>7. QED
  BY <1>2, <1>3, <1>4, <1>5, <1>6, StepKinds

\* Where a node on its way down answers nothing and starts do not race, a runner
\* that goes on after a reboot has a node that is up, through aborts, exceptions
\* and restarts of the daemon (_reboot_node's "back online").
THEOREM BackMeansUp ==
  ASSUME "slowdown" \notin Faults, "race" \notin Faults
  PROVE  Spec => []BackOnlineMeansUp
<1>1. Init => TypeInv /\ SweepInv /\ DutyPhases /\ BackOnlineMeansUp
  BY TypeInit, SweepInit, DutyInit DEF Init, IdleRunner, Fresh, BackOnlineMeansUp
<1>2. TypeInv /\ SweepInv /\ DutyPhases /\ BackOnlineMeansUp /\ [Next]_vars
        => TypeInv' /\ SweepInv' /\ DutyPhases' /\ BackOnlineMeansUp'
  BY TypeNext, SweepNext, DutyNext, BackNext
<1>3. QED
  BY <1>1, <1>2, PTL DEF Spec

-----------------------------------------------------------------------------
(* No node goes down under a guest of ours.                                *)

AtHost == {"moving", "updating", "awaiting", "reboot", "polling", "leave_maint", "starting",
           "restoring", "ceph"}

\* The guests of ours that run on host h.
StillOn(h) == {g \in on \ HaGuests : where[g] = h}

\* What a runner with locals x knows of its host's guests: those it leaves out are
\* the HA manager's; a host it has taken guests from is up until it is rebooted;
\* while nothing went wrong, the guests still on the host are those still to move,
\* and from the upgrade to the reboot there are none; guests that were shut down
\* stay where they are.
Knows(x, inPlace) ==
  /\ x.has \subseteq HaGuests
  /\ x.pc \notin AtHost \cup {"cleanup"} => x.pending \cup x.moved = {}
  /\ x.pc \in AtHost /\ x.choice # "reboot" /\ (x.pending \cup x.moved) \ HaGuests # {}
       => power[x.host] = "up"
  /\ x.pc = "moving" /\ ~x.bad => StillOn(x.host) \subseteq x.pending
  /\ x.pc \in {"updating", "awaiting", "reboot"} => StillOn(x.host) = {}
  /\ x.pc \in AtHost /\ inPlace =>
       /\ x.pc = "moving" => \A g \in x.pending : x.plan[g] = NoNode
       /\ \A g \in (x.pending \cup x.moved) \ HaGuests : where[g] = x.host
  /\ x.pc = "starting" => inPlace
  /\ x.pc \in {"reboot", "polling"} => x.choice = "reboot"

AllKnow == \A r \in Runners : Knows(runner[r], InPlace(r))

Frame == UNCHANGED <<where, on, power, opts>>

\* An idle runner knows nothing, whatever happens to the cluster: only the runner
\* that is alive matters.
LEMMA OneKnows ==
  ASSUME TypeInv, AllKnow, NEW r \in Runners, Others(r),
         \A other \in Runners \ {r} : ~Live(other),
         Knows(runner[r], InPlace(r))'
  PROVE  AllKnow'
<1>1. ASSUME NEW other \in Runners \ {r}
      PROVE  Knows(runner[other], InPlace(other))'
  <2>1. runner'[other] = runner[other] /\ runner[other].pc = "idle"
    BY DEF Others, Live
  <2>2. /\ runner[other].has \subseteq HaGuests
        /\ runner[other].pending \cup runner[other].moved = {}
    BY <2>1 DEF AllKnow, Knows, AtHost
  <2>3. QED
    BY <2>1, <2>2 DEF Knows, AtHost
<1>2. QED
  BY <1>1 DEF AllKnow

\* A step that leaves the guests and the nodes alone.
LEMMA FrameKnows ==
  ASSUME TypeInv, AllKnow, NEW r \in Runners, NEW x, runner' = [runner EXCEPT ![r] = x],
         \A other \in Runners \ {r} : ~Live(other), Frame, Knows(x, InPlace(r))
  PROVE  AllKnow'
<1>1. Others(r) /\ runner'[r] = x
  BY DEF Others, TypeInv, TypeOK
<1>2. InPlace(r)' = InPlace(r)
  BY DEF Frame, InPlace, Opt
<1>3. Knows(runner[r], InPlace(r))'
  BY <1>1, <1>2 DEF Knows, Frame, StillOn
<1>4. QED
  BY <1>1, <1>3, OneKnows

LEMMA FrameEmpty ==
  ASSUME RebootOnlyEmpty, Frame
  PROVE  RebootOnlyEmpty'
BY DEF RebootOnlyEmpty, Frame

LEMMA AloneWhenLive ==
  ASSUME SweepInv, NEW r \in Runners, Live(r)
  PROVE  \A other \in Runners \ {r} : ~Live(other)
BY DEF SweepInv

\* A step of a runner at its host that takes no guest along.
LEMMA OnwardKnows ==
  ASSUME TypeInv, SweepInv, AllKnow, NEW r \in Runners, NEW x, Frame,
         runner' = [runner EXCEPT ![r] = x], runner[r].pc \in AtHost, x.pc \in AtHost \ {"moving"},
         x.has = runner[r].has, x.host = runner[r].host,
         x.pending \cup x.moved \subseteq runner[r].pending \cup runner[r].moved,
         x.choice # "reboot" => runner[r].choice # "reboot",
         x.pc \in {"updating", "awaiting", "reboot"} => StillOn(x.host) = {},
         x.pc = "starting" => InPlace(r),
         x.pc \in {"reboot", "polling"} => x.choice = "reboot"
  PROVE  AllKnow'
<1>1. Knows(runner[r], InPlace(r)) /\ Live(r)
  BY DEF AllKnow, Live, AtHost
<1>2. Knows(x, InPlace(r))
  BY <1>1 DEF Knows, AtHost
<1>3. QED
  BY <1>1, <1>2, FrameKnows, AloneWhenLive

\* A step of a runner away from its guests: outside a host, before the evacuation,
\* or on to the finally clause.
LEMMA AwayKnows ==
  ASSUME TypeInv, SweepInv, AllKnow, NEW r \in Runners, NEW x, Frame, Live(r),
         runner' = [runner EXCEPT ![r] = x], x.has \subseteq HaGuests,
         \/ x.pc = "cleanup"
         \/ x.pc \notin AtHost \cup {"cleanup"} /\ x.pending \cup x.moved = {}
  PROVE  AllKnow'
<1>1. Knows(x, InPlace(r))
  BY DEF Knows, AtHost
<1>2. QED
  BY <1>1, FrameKnows, AloneWhenLive

LEMMA SweepStepKnows ==
  ASSUME TypeInv, SweepInv, AllKnow, NEW r \in Runners, SweepStep(r)
  PROVE  AllKnow' /\ Frame
<1>0. runner[r] \in RunnerType /\ Knows(runner[r], InPlace(r))
  BY DEF TypeInv, TypeOK, AllKnow
<1>1. Frame /\ Live(r)
  BY DEF SweepStep, ReadJob, MarkRunning, ClusterMissing, DetectCeph, LeaveLoop, SkipHost,
         FailInterrupted, NoTarget, BeginHost, FinishJob, Cleanup, NextIs, At, Frame, db, placing, Live
<1>2. /\ runner[r].pc \notin AtHost \cup {"cleanup"} =>
           runner[r].has \subseteq HaGuests /\ runner[r].pending = {} /\ runner[r].moved = {}
      /\ {"idle", "read", "marked", "loop", "finish", "preflight"} \cap (AtHost \cup {"cleanup"}) = {}
  BY <1>0 DEF Knows, AtHost
<1>3. CASE ReadJob(r) \/ ClusterMissing(r) \/ FinishJob(r) \/ Cleanup(r)
  <2>1. \/ runner' = [runner EXCEPT ![r] = IdleRunner]
        \/ runner' = [runner EXCEPT ![r] = Fresh("read", rows[JobOf(r)], Opt(r).hosts, FALSE)]
        \/ runner' = [runner EXCEPT ![r] = Fresh("loop", @.snap, @.todo, @.gate)]
    BY <1>3 DEF ReadJob, ClusterMissing, FinishJob, Cleanup
  <2>2. CASE runner' = [runner EXCEPT ![r] = IdleRunner]
    <3> DEFINE x == IdleRunner
    <3>2. runner' = [runner EXCEPT ![r] = x]
      BY <2>2
    <3>3. x.has = {} /\ x.pending = {} /\ x.moved = {} /\ x.pc = "idle"
      BY DEF Fresh, IdleRunner
    <3> HIDE DEF x
    <3>4. QED
      BY <1>1, <1>2, <3>2, <3>3, AwayKnows
  <2>3. CASE runner' = [runner EXCEPT ![r] = Fresh("read", rows[JobOf(r)], Opt(r).hosts, FALSE)]
    <3> DEFINE x == Fresh("read", rows[JobOf(r)], Opt(r).hosts, FALSE)
    <3>2. runner' = [runner EXCEPT ![r] = x]
      BY <2>3
    <3>3. x.has = {} /\ x.pending = {} /\ x.moved = {} /\ x.pc = "read"
      BY DEF Fresh
    <3> HIDE DEF x
    <3>4. QED
      BY <1>1, <1>2, <3>2, <3>3, AwayKnows
  <2>4. CASE runner' = [runner EXCEPT ![r] = Fresh("loop", @.snap, @.todo, @.gate)]
    <3> DEFINE x == Fresh("loop", runner[r].snap, runner[r].todo, runner[r].gate)
    <3>2. runner' = [runner EXCEPT ![r] = x]
      BY <2>4 DEF TypeInv, TypeOK
    <3>3. x.has = {} /\ x.pending = {} /\ x.moved = {} /\ x.pc = "loop"
      BY DEF Fresh
    <3> HIDE DEF x
    <3>4. QED
      BY <1>1, <1>2, <3>2, <3>3, AwayKnows
  <2>5. QED
    BY <2>1, <2>2, <2>3, <2>4
<1>4. CASE MarkRunning(r) \/ LeaveLoop(r) \/ DetectCeph(r) \/ SkipHost(r) \/ FailInterrupted(r)
           \/ NoTarget(r) \/ BeginHost(r)
  <2>0. runner[r].pc \in {"read", "marked", "loop"}
    BY <1>4 DEF MarkRunning, LeaveLoop, DetectCeph, SkipHost, FailInterrupted, NoTarget, BeginHost,
                NextIs, At
  <2>1. CASE MarkRunning(r) \/ LeaveLoop(r)
    <3>1. PICK p \in {"marked", "finish"} : runner' = [runner EXCEPT ![r].pc = p]
      BY <2>1 DEF MarkRunning, LeaveLoop, Goto
    <3> DEFINE x == [runner[r] EXCEPT !.pc = p]
    <3>2. runner' = [runner EXCEPT ![r] = x]
      BY <1>0, <3>1 DEF RunnerType, TypeInv, TypeOK
    <3>3. x.has = runner[r].has /\ x.pending = {} /\ x.moved = {} /\ x.pc \in {"marked", "finish"}
      BY <1>0, <1>2, <2>0 DEF RunnerType
    <3> HIDE DEF x
    <3>4. QED
      BY <1>1, <1>2, <2>0, <3>2, <3>3, AwayKnows
  <2>2. CASE DetectCeph(r)
    <3>1. PICK g : runner' = [runner EXCEPT ![r].pc = "loop", ![r].gate = g]
      BY <2>2 DEF DetectCeph
    <3> DEFINE x == [runner[r] EXCEPT !.pc = "loop", !.gate = g]
    <3>2. runner' = [runner EXCEPT ![r] = x]
      BY <1>0, <3>1 DEF RunnerType, TypeInv, TypeOK
    <3>3. x.has = runner[r].has /\ x.pending = {} /\ x.moved = {} /\ x.pc = "loop"
      BY <1>0, <1>2, <2>0 DEF RunnerType
    <3> HIDE DEF x
    <3>4. QED
      BY <1>1, <1>2, <2>0, <3>2, <3>3, AwayKnows
  <2>3. CASE SkipHost(r) \/ FailInterrupted(r) \/ NoTarget(r)
    <3>1. runner' = [runner EXCEPT ![r].todo = Tail(@)]
      BY <2>3 DEF SkipHost, FailInterrupted, NoTarget
    <3> DEFINE x == [runner[r] EXCEPT !.todo = Tail(@)]
    <3>2. runner' = [runner EXCEPT ![r] = x]
      BY <1>0, <3>1 DEF RunnerType, TypeInv, TypeOK
    <3>3. x.has = runner[r].has /\ x.pending = {} /\ x.moved = {} /\ x.pc = runner[r].pc
      BY <1>0, <1>2, <2>0 DEF RunnerType
    <3> HIDE DEF x
    <3>4. QED
      BY <1>1, <1>2, <2>0, <3>2, <3>3, AwayKnows
  <2>4. CASE BeginHost(r)
    <3>1. PICK h, T : runner' = [runner EXCEPT ![r].pc = "preflight", ![r].todo = Tail(@),
                                               ![r].host = h, ![r].targets = T]
      BY <2>4 DEF BeginHost
    <3> DEFINE x == [runner[r] EXCEPT !.pc = "preflight", !.todo = Tail(@), !.host = h, !.targets = T]
    <3>2. runner' = [runner EXCEPT ![r] = x]
      BY <1>0, <3>1 DEF RunnerType, TypeInv, TypeOK
    <3>3. x.has = runner[r].has /\ x.pending = {} /\ x.moved = {} /\ x.pc = "preflight"
      BY <1>0, <1>2, <2>0 DEF RunnerType
    <3> HIDE DEF x
    <3>4. QED
      BY <1>1, <1>2, <2>0, <3>2, <3>3, AwayKnows
  <2>5. QED
    BY <1>4, <2>1, <2>2, <2>3, <2>4
<1>5. QED
  BY <1>1, <1>3, <1>4 DEF SweepStep

LEMMA HostStepKnows ==
  ASSUME "stale" \notin Faults, TypeInv, SweepInv, DutyPhases, RebootOnlyEmpty, AllKnow,
         NEW r \in Runners, HostStep(r), ~IssueReboot(r)
  PROVE  AllKnow' /\ Frame
<1>0. /\ runner[r] \in RunnerType /\ Knows(runner[r], InPlace(r))
      /\ runner[r].has \subseteq HaGuests
  BY DEF TypeInv, TypeOK, AllKnow, Knows
<1>1. Frame /\ Live(r)
  BY DEF HostStep, PreflightFails, PreflightPasses, EnterMaintenance,
         EnterMaintenanceFails, HaDrained, DrainFails, PlanEvacuation, Shortfall,
         Evacuated, EvacuationFails, AptUpgrade, AptFails, SkipReboot, PrepareReboot,
         AwaitEnds, IssueReboot, BackOnline, RebootTimesOut, LeaveMaintenance,
         GuestsStarted, Restored, RestoreFails, HostDone, CephWaitAborted,
         FailHost, At, Live, Frame, db, placing
<1>2. ASSUME Goto(r, "cleanup")
      PROVE  AllKnow'
  <2> DEFINE x == [runner[r] EXCEPT !.pc = "cleanup"]
  <2>1. runner' = [runner EXCEPT ![r] = x]
    BY <1>2 DEF Goto
  <2>2. x.pc = "cleanup" /\ x.has = runner[r].has
    BY <1>0 DEF RunnerType
  <2> HIDE DEF x
  <2>3. QED
    BY <1>0, <1>1, <2>1, <2>2, AwayKnows
<1>3. CASE \/ PreflightFails(r) \/ EnterMaintenanceFails(r) \/ DrainFails(r) \/ Shortfall(r)
           \/ AptFails(r) \/ AwaitEnds(r) \/ RebootTimesOut(r) \/ RestoreFails(r) \/ HostDone(r)
           \/ CephWaitAborted(r)
  <2>1. Goto(r, "cleanup")
    BY <1>3 DEF PreflightFails, EnterMaintenanceFails, DrainFails, Shortfall, AptFails, AwaitEnds,
                RebootTimesOut, RestoreFails, HostDone, CephWaitAborted, FailHost
  <2>2. QED
    BY <1>1, <1>2, <2>1
\* Before the evacuation.
<1>4. /\ runner[r].pc \in {"preflight", "enter_maint", "drain", "evacuate"} =>
           runner[r].pending = {} /\ runner[r].moved = {}
      /\ HaServicesOn(Host(r)) \subseteq HaGuests
  BY <1>0 DEF Knows, AtHost, HaServicesOn
<1>5. ASSUME Goto(r, "evacuate"), runner[r].pc \in {"preflight", "drain"}
      PROVE  AllKnow'
  <2> DEFINE x == [runner[r] EXCEPT !.pc = "evacuate"]
  <2>2. runner' = [runner EXCEPT ![r] = x]
    BY <1>5 DEF Goto
  <2>3. x.pc = "evacuate" /\ x.has = runner[r].has /\ x.pending = {} /\ x.moved = {}
    BY <1>0, <1>4, <1>5 DEF RunnerType
  <2>4. x.pc \notin AtHost \cup {"cleanup"}
    BY <2>3 DEF AtHost
  <2> HIDE DEF x
  <2>5. QED
    BY <1>0, <1>1, <2>2, <2>3, <2>4, AwayKnows
<1>6. CASE HaDrained(r)
  <2>1. Goto(r, "evacuate") /\ runner[r].pc = "drain"
    BY <1>6 DEF HaDrained, At
  <2>2. QED
    BY <1>1, <1>5, <2>1
<1>7. CASE PreflightPasses(r)
  <2>1. /\ runner[r].pc = "preflight"
        /\ \/ Goto(r, "evacuate")
           \/ runner' = [runner EXCEPT ![r].pc = "enter_maint", ![r].has = HaServicesOn(Host(r))]
    BY <1>7 DEF PreflightPasses, At
  <2>2. CASE runner' = [runner EXCEPT ![r].pc = "enter_maint", ![r].has = HaServicesOn(Host(r))]
    <3> DEFINE x == [runner[r] EXCEPT !.pc = "enter_maint", !.has = HaServicesOn(Host(r))]
    <3>1. runner' = [runner EXCEPT ![r] = x]
      BY <1>0, <2>2 DEF RunnerType, TypeInv, TypeOK
    <3>2. /\ x.pc = "enter_maint" /\ x.has = HaServicesOn(Host(r))
          /\ x.pending = {} /\ x.moved = {}
      BY <1>0, <1>4, <2>1 DEF RunnerType
    <3>3. x.pc \notin AtHost \cup {"cleanup"}
      BY <3>2 DEF AtHost
    <3> HIDE DEF x
    <3>4. QED
      BY <1>1, <1>4, <3>1, <3>2, <3>3, AwayKnows
  <2>3. QED
    BY <1>1, <1>5, <2>1, <2>2
<1>8. CASE EnterMaintenance(r)
  <2> DEFINE x == [runner[r] EXCEPT !.pc = "drain", !.haMaint = TRUE]
  <2>1. runner[r].pc = "enter_maint" /\ runner' = [runner EXCEPT ![r] = x]
    BY <1>0, <1>8 DEF EnterMaintenance, At, RunnerType, TypeInv, TypeOK
  <2>2. x.pc = "drain" /\ x.has = runner[r].has /\ x.pending = {} /\ x.moved = {}
    BY <1>0, <1>4, <2>1 DEF RunnerType
  <2>3. x.pc \notin AtHost \cup {"cleanup"}
    BY <2>2 DEF AtHost
  <2> HIDE DEF x
  <2>4. QED
    BY <1>0, <1>1, <2>1, <2>2, <2>3, AwayKnows
\* The evacuation is planned: a guest of ours that runs on the host is to leave.
<1>9. CASE PlanEvacuation(r)
  <2> DEFINE leaving == VmsOnNode(Host(r)) \ (IF InPlace(r) THEN {} ELSE runner[r].has)
  <2>1. PICK place \in [leaving -> IF InPlace(r) THEN {NoNode} ELSE runner[r].targets] :
          runner' = [runner EXCEPT ![r].pc = "moving", ![r].pending = leaving,
             ![r].plan = [g \in Guests |-> IF g \in leaving THEN place[g] ELSE NoNode]]
    BY <1>9 DEF PlanEvacuation
  <2>2. leaving \subseteq Guests /\ (\A g \in leaving : g \in on /\ where[g] = Host(r))
        /\ StillOn(Host(r)) \subseteq leaving
    BY <1>0 DEF VmsOnNode, StillOn, TypeInv, TypeOK
  <2>3. InPlace(r) => \A g \in leaving : place[g] = NoNode
    BY <2>1
  <2>4. runner[r].pc = "evacuate" /\ runner[r].moved = {} /\ runner[r].choice # "reboot"
    BY <1>4, <1>9 DEF PlanEvacuation, At, DutyPhases, After
  <2>5. leaving \ HaGuests # {} => power[Host(r)] = "up"
    BY <2>2 DEF RebootOnlyEmpty
  <2> HIDE DEF leaving
  <2> DEFINE f == [g \in Guests |-> IF g \in leaving THEN place[g] ELSE NoNode]
             x == [runner[r] EXCEPT !.pc = "moving", !.pending = leaving, !.plan = f]
  <2>6. runner' = [runner EXCEPT ![r] = x]
    BY <1>0, <2>1 DEF RunnerType, TypeInv, TypeOK
  <2>7. InPlace(r) => \A g \in leaving : f[g] = NoNode
    BY <2>2, <2>3
  <2> HIDE DEF f
  <2>8. /\ x.pc = "moving" /\ x.has = runner[r].has /\ x.pending = leaving /\ x.moved = {}
        /\ x.plan = f /\ x.host = Host(r) /\ x.choice = runner[r].choice
    BY <1>0, <2>4 DEF RunnerType, Host
  <2> HIDE DEF x
  <2>9. Knows(x, InPlace(r))
    BY <1>0, <2>2, <2>4, <2>5, <2>7, <2>8 DEF Knows, AtHost
  <2>10. QED
    BY <1>1, <2>6, <2>9, FrameKnows, AloneWhenLive
\* On with the host, no guest taken along.
<1>10. /\ runner[r].pc \in AtHost => runner[r].choice \in Choices
       /\ runner[r].pc \in Before => runner[r].choice # "reboot"
  BY <1>0 DEF RunnerType, DutyPhases, Before, After
<1>11. CASE Evacuated(r)
  <2> DEFINE x == [runner[r] EXCEPT !.pc = "updating"]
  <2>1. runner[r].pc \in {"moving"} /\ runner' = [runner EXCEPT ![r] = x]
    BY <1>0, <1>11 DEF Evacuated, At, Goto, RunnerType, TypeInv, TypeOK
  <2>2. /\ x.has = runner[r].has /\ x.host = runner[r].host
        /\ x.pending = runner[r].pending /\ x.moved = runner[r].moved
        /\ x.choice = runner[r].choice /\ x.pc = "updating"
    BY <1>0 DEF RunnerType
  <2>3. StillOn(Host(r)) = {}
    BY <1>0, <1>11, <2>1 DEF Evacuated, Knows, Host
  <2> HIDE DEF x
  <2>9. QED
    BY <1>1, <2>1, <2>2, <2>3, OnwardKnows DEF AtHost, Host
<1>12. CASE AptUpgrade(r)
  <2> DEFINE x == [runner[r] EXCEPT !.pc = "awaiting"]
  <2>1. runner[r].pc \in {"updating"} /\ runner' = [runner EXCEPT ![r] = x]
    BY <1>0, <1>12 DEF AptUpgrade, At, Goto, RunnerType, TypeInv, TypeOK
  <2>2. /\ x.has = runner[r].has /\ x.host = runner[r].host
        /\ x.pending = runner[r].pending /\ x.moved = runner[r].moved
        /\ x.choice = runner[r].choice /\ x.pc = "awaiting"
    BY <1>0 DEF RunnerType
  <2>3. StillOn(Host(r)) = {}
    BY <1>0, <2>1 DEF Knows, Host
  <2> HIDE DEF x
  <2>9. QED
    BY <1>1, <2>1, <2>2, <2>3, OnwardKnows DEF AtHost, Host
<1>13. CASE SkipReboot(r)
  <2> DEFINE x == [runner[r] EXCEPT !.pc = "leave_maint", !.choice = "skip"]
  <2>1. runner[r].pc \in {"awaiting"} /\ runner' = [runner EXCEPT ![r] = x]
    BY <1>0, <1>13 DEF SkipReboot, At, Goto, RunnerType, TypeInv, TypeOK
  <2>2. /\ x.has = runner[r].has /\ x.host = runner[r].host
        /\ x.pending = runner[r].pending /\ x.moved = runner[r].moved
        /\ x.pc = "leave_maint"
    BY <1>0 DEF RunnerType
  <2>3. runner[r].choice # "reboot"
    BY <1>10, <2>1 DEF Before
  <2> HIDE DEF x
  <2>9. QED
    BY <1>1, <2>1, <2>2, <2>3, OnwardKnows DEF AtHost
<1>14. CASE PrepareReboot(r)
  <2> DEFINE x == [runner[r] EXCEPT !.pc = "reboot", !.choice = "reboot", !.nooutOn = runner[r].gate]
  <2>1. runner[r].pc \in {"awaiting"} /\ runner' = [runner EXCEPT ![r] = x]
    BY <1>0, <1>14 DEF PrepareReboot, At, Goto, RunnerType, TypeInv, TypeOK
  <2>2. /\ x.has = runner[r].has /\ x.host = runner[r].host
        /\ x.pending = runner[r].pending /\ x.moved = runner[r].moved
        /\ x.choice = "reboot" /\ x.pc = "reboot"
    BY <1>0 DEF RunnerType
  <2>3. StillOn(Host(r)) = {}
    BY <1>0, <2>1 DEF Knows, Host
  <2> HIDE DEF x
  <2>9. QED
    BY <1>1, <2>1, <2>2, <2>3, OnwardKnows DEF AtHost, Host
<1>15. CASE BackOnline(r)
  <2> DEFINE x == [runner[r] EXCEPT !.pc = "leave_maint", !.nooutOn = FALSE]
  <2>1. runner[r].pc \in {"polling"} /\ runner' = [runner EXCEPT ![r] = x]
    BY <1>0, <1>15 DEF BackOnline, At, Goto, RunnerType, TypeInv, TypeOK
  <2>2. /\ x.has = runner[r].has /\ x.host = runner[r].host
        /\ x.pending = runner[r].pending /\ x.moved = runner[r].moved
        /\ x.choice = runner[r].choice /\ x.pc = "leave_maint"
    BY <1>0 DEF RunnerType
  <2> HIDE DEF x
  <2>9. QED
    BY <1>1, <2>1, <2>2, OnwardKnows DEF AtHost
<1>16. CASE LeaveMaintenance(r)
  <2>0. PICK left \in BOOLEAN :
          runner' = [runner EXCEPT ![r].pc = AfterReboot(r).pc, ![r].pending = AfterReboot(r).pending,
                                   ![r].haMaint = @ /\ ~left]
    BY <1>16 DEF LeaveMaintenance
  <2>3. /\ AfterReboot(r).pc \in {"starting", "restoring", "ceph"}
        /\ AfterReboot(r).pc = "starting" => InPlace(r)
        /\ AfterReboot(r).pending \subseteq runner[r].moved
    BY DEF AfterReboot
  <2> DEFINE x == [runner[r] EXCEPT !.pc = AfterReboot(r).pc, !.pending = AfterReboot(r).pending,
                                    !.haMaint = @ /\ ~left]
  <2>1. runner[r].pc = "leave_maint" /\ runner' = [runner EXCEPT ![r] = x]
    BY <1>0, <1>16, <2>0 DEF LeaveMaintenance, At, RunnerType, TypeInv, TypeOK
  <2>2. /\ x.has = runner[r].has /\ x.host = runner[r].host /\ x.pending = AfterReboot(r).pending
        /\ x.moved = runner[r].moved /\ x.choice = runner[r].choice /\ x.pc = AfterReboot(r).pc
    BY <1>0 DEF RunnerType
  <2> HIDE DEF x
  <2>4. x.pc \in AtHost \ {"moving"} /\ runner[r].pc \in AtHost
    BY <2>1, <2>2, <2>3 DEF AtHost
  <2>9. QED
    BY <1>1, <2>1, <2>2, <2>3, <2>4, OnwardKnows
<1>17. CASE Restored(r)
  <2> DEFINE x == [runner[r] EXCEPT !.pc = "ceph"]
  <2>1. runner[r].pc \in {"restoring"} /\ runner' = [runner EXCEPT ![r] = x]
    BY <1>0, <1>17 DEF Restored, At, Goto, RunnerType, TypeInv, TypeOK
  <2>2. /\ x.has = runner[r].has /\ x.host = runner[r].host
        /\ x.pending = runner[r].pending /\ x.moved = runner[r].moved
        /\ x.choice = runner[r].choice /\ x.pc = "ceph"
    BY <1>0 DEF RunnerType
  <2> HIDE DEF x
  <2>9. QED
    BY <1>1, <2>1, <2>2, OnwardKnows DEF AtHost
<1>18. CASE GuestsStarted(r) /\ ~runner[r].bad
  <2> DEFINE x == [runner[r] EXCEPT !.pc = "ceph"]
  <2>1. runner[r].pc \in {"starting"} /\ runner' = [runner EXCEPT ![r] = x]
    BY <1>0, <1>18 DEF GuestsStarted, At, Goto, RunnerType, TypeInv, TypeOK
  <2>2. /\ x.has = runner[r].has /\ x.host = runner[r].host
        /\ x.pending = runner[r].pending /\ x.moved = runner[r].moved
        /\ x.choice = runner[r].choice /\ x.pc = "ceph"
    BY <1>0 DEF RunnerType
  <2> HIDE DEF x
  <2>9. QED
    BY <1>1, <2>1, <2>2, OnwardKnows DEF AtHost
<1>19. CASE EvacuationFails(r) /\ InPlace(r)
  <2> DEFINE x == [runner[r] EXCEPT !.pc = "starting", !.pending = runner[r].moved]
  <2>1. runner[r].pc \in {"moving"} /\ runner' = [runner EXCEPT ![r] = x]
    BY <1>0, <1>19 DEF EvacuationFails, At, Goto, RunnerType, TypeInv, TypeOK
  <2>2. /\ x.has = runner[r].has /\ x.host = runner[r].host
        /\ x.pending = runner[r].moved /\ x.moved = runner[r].moved
        /\ x.choice = runner[r].choice /\ x.pc = "starting"
    BY <1>0 DEF RunnerType
  <2> HIDE DEF x
  <2>9. QED
    BY <1>1, <1>19, <2>1, <2>2, OnwardKnows DEF AtHost
<1>20. CASE (GuestsStarted(r) /\ runner[r].bad) \/ (EvacuationFails(r) /\ ~InPlace(r))
  <2>1. Goto(r, "cleanup")
    BY <1>20 DEF GuestsStarted, EvacuationFails
  <2>2. QED
    BY <1>1, <1>2, <2>1
<1>21. CASE GuestsStarted(r) \/ EvacuationFails(r)
  BY <1>18, <1>19, <1>20, <1>21, Zenon
<1>22. QED
  <2>1. \/ \/ PreflightFails(r) \/ EnterMaintenanceFails(r) \/ DrainFails(r) \/ Shortfall(r)
           \/ AptFails(r) \/ AwaitEnds(r) \/ RebootTimesOut(r) \/ RestoreFails(r) \/ HostDone(r)
           \/ CephWaitAborted(r)
        \/ HaDrained(r) \/ PreflightPasses(r) \/ EnterMaintenance(r) \/ PlanEvacuation(r)
        \/ Evacuated(r) \/ AptUpgrade(r) \/ SkipReboot(r) \/ PrepareReboot(r) \/ BackOnline(r)
        \/ LeaveMaintenance(r) \/ Restored(r) \/ (GuestsStarted(r) \/ EvacuationFails(r))
    BY DEF HostStep
  <2>2. QED
    BY <2>1, <1>3, <1>6, <1>7, <1>8, <1>9, <1>11, <1>12, <1>13, <1>14, <1>15, <1>16, <1>17, <1>21

\* The reboot command finds no guest of ours on the node.
LEMMA IssueRebootKnows ==
  ASSUME TypeInv, SweepInv, AllKnow, RebootOnlyEmpty, NEW r \in Runners, IssueReboot(r)
  PROVE  AllKnow' /\ RebootOnlyEmpty'
<1>0. /\ runner[r] \in RunnerType /\ Knows(runner[r], InPlace(r)) /\ Live(r)
      /\ runner[r].pc = "reboot"
  BY DEF TypeInv, TypeOK, AllKnow, IssueReboot, At, Live
<1>1. UNCHANGED <<where, on, opts>> /\ \A n \in Nodes \ {Host(r)} : power'[n] = power[n]
  BY DEF IssueReboot, db, placing, TypeInv, TypeOK
<1>2. RebootOnlyEmpty'
  <2>1. ASSUME NEW g \in on \ HaGuests
        PROVE  power'[where[g]] = "up"
    <3>1. where[g] # Host(r)
      BY <1>0 DEF Knows, StillOn, Host
    <3>2. where[g] \in Nodes
      BY DEF TypeInv, TypeOK
    <3>3. QED
      BY <1>1, <3>1, <3>2 DEF RebootOnlyEmpty
  <2>2. QED
    BY <1>1, <2>1 DEF RebootOnlyEmpty
<1>3. AllKnow'
  <2> DEFINE x == [runner[r] EXCEPT !.pc = "polling"]
  <2>1. runner' = [runner EXCEPT ![r] = x]
    BY DEF IssueReboot, Goto
  <2>2. Others(r) /\ runner'[r] = x
    BY <2>1 DEF Others, TypeInv, TypeOK
  <2>3. /\ x.pc = "polling" /\ x.choice = "reboot" /\ x.has = runner[r].has /\ x.host = runner[r].host
        /\ x.pending = runner[r].pending /\ x.moved = runner[r].moved
    BY <1>0 DEF RunnerType, Knows
  <2> HIDE DEF x
  <2>4. InPlace(r)' = InPlace(r)
    BY <1>1 DEF InPlace, Opt
  <2>5. Knows(runner[r], InPlace(r))'
    BY <1>0, <1>1, <2>2, <2>3, <2>4 DEF Knows, AtHost
  <2>6. QED
    BY <1>0, <2>2, <2>5, OneKnows, AloneWhenLive
<1>4. QED
  BY <1>2, <1>3

LEMMA GuestStepKnows ==
  ASSUME TypeInv, SweepInv, AllKnow, RebootOnlyEmpty, BackOnlineMeansUp, NEW r \in Runners,
         NEW g \in Guests, GuestStep(r, g)
  PROVE  AllKnow' /\ RebootOnlyEmpty'
<1>0. /\ runner[r] \in RunnerType /\ Knows(runner[r], InPlace(r)) /\ Live(r)
      /\ g \in runner[r].pending
  BY DEF TypeInv, TypeOK, AllKnow, GuestStep, MoveGuest, MoveGuestFails, StartGuest, RestoreGuest,
         RestoreGuestFails, At, Live
<1>1. UNCHANGED <<power, opts>> /\ InPlace(r)' = InPlace(r)
  BY DEF GuestStep, MoveGuest, MoveGuestFails, StartGuest, RestoreGuest, RestoreGuestFails, db,
         InPlace, Opt
<1>2. CASE MoveGuest(r, g)
  <2> DEFINE x == [runner[r] EXCEPT !.pending = @ \ {g}, !.moved = @ \cup {g}]
  <2>1. /\ runner' = [runner EXCEPT ![r] = [runner[r] EXCEPT !.pending = @ \ {g},
                        !.moved = @ \cup {g}, !.bad = @ \/ ~TRUE]]
        /\ runner[r].pc = "moving" /\ where[g] = Host(r)
    BY <1>0, <1>2 DEF MoveGuest, Handled, At, CanLeave, RunnerType, TypeInv, TypeOK
  <2>2. runner' = [runner EXCEPT ![r] = x]
    BY <1>0, <2>1 DEF RunnerType
  <2>3. Others(r) /\ runner'[r] = x
    BY <2>2 DEF Others, TypeInv, TypeOK
  <2>4. /\ x.pc = "moving" /\ x.has = runner[r].has /\ x.host = Host(r)
        /\ x.pending = runner[r].pending \ {g} /\ x.moved = runner[r].moved \cup {g}
        /\ x.choice = runner[r].choice /\ x.bad = runner[r].bad /\ x.plan = runner[r].plan
    BY <1>0, <2>1 DEF RunnerType, Host
  <2> HIDE DEF x
  <2>5. /\ x.pending \cup x.moved = runner[r].pending \cup runner[r].moved
        /\ Host(r) = runner[r].host
    BY <1>0, <2>4 DEF Host
  <2>6. CASE runner[r].plan[g] = NoNode
    <3>1. on' = on \ {g} /\ UNCHANGED where
      BY <1>2, <2>6 DEF MoveGuest, GuestLeaves
    <3>2. RebootOnlyEmpty'
      BY <1>1, <3>1 DEF RebootOnlyEmpty
    <3>3. StillOn(Host(r)) \subseteq runner[r].pending => (on' \cap StillOn(Host(r))) \subseteq x.pending
      BY <2>4, <3>1
    <3>4. Knows(runner[r], InPlace(r))'
      BY <1>0, <1>1, <2>1, <2>3, <2>4, <2>5, <3>1, <3>3 DEF Knows, AtHost, StillOn
    <3>5. QED
      BY <1>0, <2>3, <3>2, <3>4, OneKnows, AloneWhenLive
  <2>7. CASE runner[r].plan[g] # NoNode
    <3>1. /\ where' = [where EXCEPT ![g] = runner[r].plan[g]] /\ UNCHANGED on
          /\ power[runner[r].plan[g]] = "up" /\ runner[r].plan[g] # Host(r) /\ ~InPlace(r)
      BY <1>0, <1>2, <2>1, <2>7 DEF MoveGuest, GuestLeaves, CanLeave, Knows, AtHost
    <3>2. /\ where'[g] = runner[r].plan[g]
          /\ \A other \in Guests \ {g} : where'[other] = where[other]
      BY <3>1 DEF TypeInv, TypeOK
    <3>3. RebootOnlyEmpty'
      BY <1>1, <3>1, <3>2 DEF RebootOnlyEmpty, TypeInv, TypeOK
    <3>4. StillOn(Host(r)) \subseteq runner[r].pending =>
            {other \in on \ HaGuests : where'[other] = Host(r)} \subseteq x.pending
      BY <2>4, <3>1, <3>2 DEF StillOn, TypeInv, TypeOK
    <3>5. Knows(runner[r], InPlace(r))'
      BY <1>0, <1>1, <2>1, <2>3, <2>4, <2>5, <3>1, <3>4 DEF Knows, AtHost, StillOn
    <3>6. QED
      BY <1>0, <2>3, <3>3, <3>5, OneKnows, AloneWhenLive
  <2>8. QED
    BY <2>6, <2>7
<1>3. CASE MoveGuestFails(r, g)
  <2> DEFINE x == [runner[r] EXCEPT !.pending = @ \ {g}, !.bad = TRUE]
  <2>1. runner[r].pc = "moving" /\ Frame
    BY <1>3 DEF MoveGuestFails, At, Frame, db
  <2>2. runner' = [runner EXCEPT ![r] = [runner[r] EXCEPT !.pending = @ \ {g}, !.bad = @ \/ ~FALSE]]
    BY <1>0, <1>3 DEF MoveGuestFails, Handled, RunnerType, TypeInv, TypeOK
  <2>3. runner' = [runner EXCEPT ![r] = x]
    BY <1>0, <2>2 DEF RunnerType
  <2>4. /\ x.pc = "moving" /\ x.bad /\ x.has = runner[r].has /\ x.host = runner[r].host
        /\ x.pending = runner[r].pending \ {g} /\ x.moved = runner[r].moved
        /\ x.choice = runner[r].choice /\ x.plan = runner[r].plan
    BY <1>0, <2>1 DEF RunnerType
  <2> HIDE DEF x
  <2>5. Knows(x, InPlace(r))
    BY <1>0, <2>1, <2>4 DEF Knows, AtHost
  <2>6. QED
    BY <1>0, <2>1, <2>3, <2>5, FrameKnows, FrameEmpty, AloneWhenLive
\* A guest that is started or brought back finds its host up.
<1>4. CASE StartGuest(r, g) \/ RestoreGuest(r, g)
  <2> DEFINE x == [runner[r] EXCEPT !.pending = @ \ {g}]
  <2>1. /\ runner[r].pc \in {"starting", "restoring"}
        /\ runner' = [runner EXCEPT ![r] = x]
    BY <1>0, <1>4 DEF StartGuest, RestoreGuest, At, RunnerType, TypeInv, TypeOK
  <2>2. Others(r) /\ runner'[r] = x
    BY <2>1 DEF Others, TypeInv, TypeOK
  <2>3. /\ x.pc = runner[r].pc /\ x.has = runner[r].has /\ x.host = runner[r].host
        /\ x.pending = runner[r].pending \ {g} /\ x.moved = runner[r].moved
        /\ x.choice = runner[r].choice
    BY <1>0 DEF RunnerType
  <2> HIDE DEF x
  <2>4. g \notin HaGuests => power[Host(r)] = "up"
    BY <1>0, <2>1 DEF Knows, AtHost, BackOnlineMeansUp, Host
  <2>5. CASE StartGuest(r, g)
    <3>1. UNCHANGED where /\ on' \subseteq on \cup {g} /\ runner[r].pc = "starting" /\ InPlace(r)
      BY <1>0, <2>5 DEF StartGuest, At, Knows
    <3>2. g \notin HaGuests => where[g] = Host(r)
      BY <1>0, <3>1 DEF Knows, AtHost, Host
    <3>3. RebootOnlyEmpty'
      BY <1>1, <2>4, <3>1, <3>2 DEF RebootOnlyEmpty
    <3>4. Knows(runner[r], InPlace(r))'
      BY <1>0, <1>1, <2>1, <2>2, <2>3, <3>1 DEF Knows, AtHost
    <3>5. QED
      BY <1>0, <2>2, <3>3, <3>4, OneKnows, AloneWhenLive
  <2>6. CASE RestoreGuest(r, g)
    <3>1. /\ where' = [where EXCEPT ![g] = Host(r)] /\ UNCHANGED on /\ runner[r].pc = "restoring"
          /\ Host(r) = runner[r].host
      BY <2>6 DEF RestoreGuest, At, Host
    <3>2. where'[g] = Host(r) /\ \A other \in Guests \ {g} : where'[other] = where[other]
      BY <3>1 DEF TypeInv, TypeOK
    <3>3. RebootOnlyEmpty'
      BY <1>1, <2>4, <3>1, <3>2 DEF RebootOnlyEmpty, TypeInv, TypeOK
    <3>4. runner[r].moved \subseteq Guests /\ runner[r].pending \subseteq Guests
      BY <1>0 DEF RunnerType
    <3>5. Knows(runner[r], InPlace(r))'
      BY <1>0, <1>1, <2>1, <2>2, <2>3, <3>1, <3>2, <3>4 DEF Knows, AtHost
    <3>6. QED
      BY <1>0, <2>2, <3>3, <3>5, OneKnows, AloneWhenLive
  <2>7. QED
    BY <1>4, <2>5, <2>6
<1>5. CASE RestoreGuestFails(r, g)
  <2> DEFINE x == [runner[r] EXCEPT !.pending = @ \ {g}, !.bad = TRUE]
  <2>1. runner[r].pc = "restoring" /\ Frame /\ runner' = [runner EXCEPT ![r] = x]
    BY <1>0, <1>5 DEF RestoreGuestFails, At, Frame, db, RunnerType, TypeInv, TypeOK
  <2>2. /\ x.pc = "restoring" /\ x.has = runner[r].has /\ x.host = runner[r].host
        /\ x.pending = runner[r].pending \ {g} /\ x.moved = runner[r].moved
        /\ x.choice = runner[r].choice
    BY <1>0, <2>1 DEF RunnerType
  <2> HIDE DEF x
  <2>3. Knows(x, InPlace(r))
    BY <1>0, <2>1, <2>2 DEF Knows, AtHost
  <2>4. QED
    BY <1>0, <2>1, <2>3, FrameKnows, FrameEmpty, AloneWhenLive
<1>6. QED
  BY <1>2, <1>3, <1>4, <1>5 DEF GuestStep

LEMMA RaiseKnows ==
  ASSUME TypeInv, SweepInv, AllKnow, NEW r \in Runners, Raise(r)
  PROVE  AllKnow' /\ Frame
<1>0. /\ runner[r] \in RunnerType /\ runner[r].has \subseteq HaGuests /\ Live(r) /\ Frame
  BY DEF TypeInv, TypeOK, AllKnow, Knows, Raise, Live, Frame, db, placing, HostPhases
<1>1. CASE runner[r].pc \in HostPhases
  <2> DEFINE x == [runner[r] EXCEPT !.pc = "cleanup", !.raised = TRUE]
  <2>1. runner' = [runner EXCEPT ![r] = x]
    BY <1>0, <1>1 DEF Raise, HostPhases, Phases, RunnerType, TypeInv, TypeOK
  <2>2. x.pc = "cleanup" /\ x.has = runner[r].has
    BY <1>0 DEF RunnerType
  <2> HIDE DEF x
  <2>3. QED
    BY <1>0, <2>1, <2>2, AwayKnows
<1>2. CASE runner[r].pc \notin HostPhases
  <2> DEFINE x == IdleRunner
  <2>1. runner' = [runner EXCEPT ![r] = x]
    BY <1>2 DEF Raise
  <2>2. x.pc = "idle" /\ x.has = {} /\ x.pending = {} /\ x.moved = {}
    BY DEF IdleRunner, Fresh
  <2>3. x.pc \notin AtHost \cup {"cleanup"}
    BY <2>2 DEF AtHost
  <2> HIDE DEF x
  <2>4. QED
    BY <1>0, <2>1, <2>2, <2>3, AwayKnows
<1>3. QED
  BY <1>1, <1>2

LEMMA SpawnKnows ==
  ASSUME TypeInv, SweepInv, AllKnow, NEW q \in Requests, NEW r \in Runners, StartSpawn(q, r)
  PROVE  AllKnow' /\ Frame
<1> DEFINE x == SpawnedRunner
<1>1. Frame /\ runner' = [runner EXCEPT ![r] = x]
  BY DEF StartSpawn, Frame, db, placing
<1>2. x.pc = "spawned" /\ x.has = {} /\ x.pending = {} /\ x.moved = {}
  BY DEF SpawnedRunner, Fresh
<1>3. \A other \in Runners : ~Live(other)
  <2>1. starting[q] # NoJob
    BY RunnersAreJobs, ConstantsOK DEF StartSpawn
  <2>2. QED
    BY <2>1 DEF SweepInv
<1> HIDE DEF x
<1>4. Knows(x, InPlace(r))
  BY <1>2 DEF Knows, AtHost
<1>5. QED
  BY <1>1, <1>3, <1>4, FrameKnows

LEMMA RestartKnows ==
  ASSUME Restart
  PROVE  AllKnow' /\ Frame
<1>1. Frame
  BY DEF Restart, Respawn, Frame, db, placing
<1>2. ASSUME NEW r \in Runners
      PROVE  Knows(runner[r], InPlace(r))'
  <2>1. /\ runner'[r].pc \in {"idle", "spawned"} /\ runner'[r].has = {}
        /\ runner'[r].pending = {} /\ runner'[r].moved = {}
    BY DEF Restart, Respawn, IdleRunner, SpawnedRunner, Fresh
  <2>2. QED
    BY <2>1 DEF Knows, AtHost
<1>3. QED
  BY <1>1, <1>2 DEF AllKnow

\* The admin, and the cluster by itself.
LEMMA AsideKnows ==
  ASSUME TypeInv, SweepInv, AllKnow, RebootOnlyEmpty, late = {}, [Next]_vars,
         Admin \/ Environment \/ UNCHANGED vars
  PROVE  AllKnow' /\ RebootOnlyEmpty'
<1>1. /\ UNCHANGED runner
      /\ \A n \in Nodes : power[n] = "up" => power'[n] = "up"
      /\ on' \subseteq on
      /\ \A g \in Guests \ HaGuests : where'[g] = where[g]
  <2>1. CASE Admin \/ UNCHANGED vars
    BY <2>1 DEF Admin, CreateJob, StartCheck, AbortJob, ConfirmReboot, vars, memory, placing
  <2>2. CASE Environment
    <3>1. CASE \E g \in HaGuests, n \in Nodes : HaMoves(g, n)
      BY <3>1 DEF HaMoves, TypeInv, TypeOK
    <3>2. CASE Poll \/ CephHeals \/ \E n \in Nodes : NodeGoesDown(n) \/ NodeComesUp(n)
      BY <3>2 DEF Poll, CephHeals, NodeGoesDown, NodeComesUp, placing, TypeInv, TypeOK
    <3>3. QED
      BY <2>2, <3>1, <3>2 DEF Environment
  <2>3. QED
    BY <2>1, <2>2
<1>2. ASSUME NEW r \in Runners, runner[r].pc \in AtHost
      PROVE  InPlace(r)' = InPlace(r) /\ runner[r].host \in Nodes
  <2>1. jobs[JobOf(r)] = "running" /\ JobOf(r) \in Jobs /\ runner[r].host \in Nodes
    BY <1>2, RunnersAreJobs DEF SweepInv, Sweeping, AtHost, Phases, TypeInv, HostKnown, HostPhases
  <2>2. opts'[JobOf(r)] = opts[JobOf(r)]
    <3>1. CASE \E j \in Jobs, o \in JobOptions : CreateJob(j, o)
      BY <2>1, <3>1 DEF CreateJob, TypeInv, TypeOK
    <3>2. CASE ~\E j \in Jobs, o \in JobOptions : CreateJob(j, o)
      BY <3>2 DEF Admin, StartCheck, AbortJob, ConfirmReboot, Environment, Poll, CephHeals, NodeGoesDown,
                  NodeComesUp, HaMoves, LateTask, vars, db
    <3>3. QED
      BY <3>1, <3>2
  <2>3. QED
    BY <2>1, <2>2 DEF InPlace, Opt
<1>3. ASSUME NEW r \in Runners
      PROVE  Knows(runner[r], InPlace(r))'
  <2>1. Knows(runner[r], InPlace(r)) /\ runner'[r] = runner[r] /\ runner[r] \in RunnerType
    BY <1>1 DEF AllKnow, TypeInv, TypeOK
  <2>2. CASE runner[r].pc \notin AtHost
    BY <2>1, <2>2 DEF Knows, AtHost
  <2>3. CASE runner[r].pc \in AtHost
    <3>1. InPlace(r)' = InPlace(r) /\ runner[r].host \in Nodes
      BY <1>2, <2>3
    <3>2. StillOn(runner[r].host)' \subseteq StillOn(runner[r].host)
      BY <1>1, <2>1 DEF StillOn, TypeInv, TypeOK
    <3>3. runner[r].pending \subseteq Guests /\ runner[r].moved \subseteq Guests
      BY <2>1 DEF RunnerType
    <3>4. QED
      BY <1>1, <2>1, <2>3, <3>1, <3>2, <3>3 DEF Knows, AtHost
  <2>4. QED
    BY <2>2, <2>3
<1>4. RebootOnlyEmpty'
  <2>1. ASSUME NEW g \in on' \ HaGuests
        PROVE  power'[where'[g]] = "up"
    <3>1. g \in on \ HaGuests /\ g \in Guests /\ where[g] \in Nodes
      BY <1>1, <2>1 DEF TypeInv, TypeOK
    <3>2. power[where[g]] = "up" /\ where'[g] = where[g]
      BY <1>1, <3>1 DEF RebootOnlyEmpty
    <3>3. QED
      BY <1>1, <3>1, <3>2
  <2>2. QED
    BY <2>1 DEF RebootOnlyEmpty
<1>5. QED
  BY <1>3, <1>4 DEF AllKnow

\* No task is given up on where none outlives its timeout.
LEMMA NoLateTasks ==
  ASSUME "late" \notin Faults
  PROVE  late = {} /\ [Next]_vars => late' = {}
<1> SUFFICES ASSUME late = {}, [Next]_vars
             PROVE  late' = {}
  OBVIOUS
<1>1. CASE Admin \/ Restart \/ UNCHANGED vars \/ Environment
  BY <1>1 DEF Admin, CreateJob, StartCheck, AbortJob, ConfirmReboot, Restart, Respawn, vars, placing,
              Environment, Poll, CephHeals, NodeGoesDown, NodeComesUp, HaMoves, LateTask
<1>2. ASSUME NEW r \in Runners, HostStep(r)
      PROVE  UNCHANGED late
  BY <1>2 DEF HostStep, PreflightFails, PreflightPasses, EnterMaintenance,
         EnterMaintenanceFails, HaDrained, DrainFails, PlanEvacuation, Shortfall,
         Evacuated, EvacuationFails, AptUpgrade, AptFails, SkipReboot, PrepareReboot,
         AwaitEnds, IssueReboot, BackOnline, RebootTimesOut, LeaveMaintenance,
         GuestsStarted, Restored, RestoreFails, HostDone, CephWaitAborted,
         FailHost, placing
<1>3. ASSUME NEW r \in Runners, SweepStep(r)
      PROVE  UNCHANGED late
  BY <1>3 DEF SweepStep, ReadJob, MarkRunning, ClusterMissing, DetectCeph, LeaveLoop, SkipHost,
         FailInterrupted, NoTarget, BeginHost, FinishJob, Cleanup, placing
<1>4. ASSUME NEW r \in Runners, NEW g \in Guests, GuestStep(r, g)
      PROVE  UNCHANGED late
  BY <1>4 DEF GuestStep, MoveGuest, MoveGuestFails, StartGuest, RestoreGuest, RestoreGuestFails
<1>5. ASSUME NEW r \in Runners, NEW q \in Requests, Raise(r) \/ StartSpawn(q, r)
      PROVE  UNCHANGED late
  BY <1>5 DEF Raise, StartSpawn, placing
<1>6. ASSUME NEW r \in Runners, Raise(r)
      PROVE  UNCHANGED late
  BY <1>6 DEF Raise, placing
<1>7. QED
  BY <1>1, <1>2, <1>3, <1>4, <1>5, <1>6 DEF Next, RunnerStep

EmptyInv == late = {} /\ AllKnow /\ RebootOnlyEmpty

LEMMA EmptyInit == Init => BackOnlineMeansUp /\ EmptyInv
<1> SUFFICES ASSUME Init
             PROVE  BackOnlineMeansUp /\ EmptyInv
  OBVIOUS
<1>1. \A r \in Runners : Knows(runner[r], InPlace(r)) /\ runner[r].pc = "idle"
  BY DEF Init, IdleRunner, Fresh, Knows, AtHost
<1>2. BackOnlineMeansUp
  BY <1>1 DEF BackOnlineMeansUp
<1>3. RebootOnlyEmpty
  <2>1. \A g \in Guests : where[g] \in Nodes /\ on = Guests
    BY ConstantsOK DEF Init
  <2>2. QED
    BY <2>1 DEF Init, RebootOnlyEmpty
<1>4. QED
  BY <1>1, <1>2, <1>3 DEF Init, AllKnow, EmptyInv

LEMMA EmptyNext ==
  ASSUME {"stale", "late"} \cap Faults = {}
  PROVE  /\ TypeInv /\ SweepInv /\ DutyPhases /\ BackOnlineMeansUp /\ EmptyInv /\ [Next]_vars
         => EmptyInv'
<1> SUFFICES ASSUME TypeInv, SweepInv, DutyPhases, BackOnlineMeansUp, EmptyInv, [Next]_vars
             PROVE  EmptyInv'
  OBVIOUS
<1>0. AllKnow /\ RebootOnlyEmpty /\ late = {} /\ "stale" \notin Faults
  BY DEF EmptyInv
<1>1. late' = {}
  BY <1>0, NoLateTasks
<1>2. CASE Admin \/ Environment \/ UNCHANGED vars
  BY <1>0, <1>1, <1>2, AsideKnows DEF EmptyInv
<1>3. ASSUME NEW q \in Requests, NEW r \in Runners, StartSpawn(q, r)
      PROVE  EmptyInv'
  BY <1>0, <1>1, <1>3, SpawnKnows, FrameEmpty DEF EmptyInv
<1>4. CASE Restart
  BY <1>0, <1>1, <1>4, RestartKnows, FrameEmpty DEF EmptyInv
<1>5. ASSUME NEW r \in Runners, RunnerStep(r) \/ Raise(r)
      PROVE  EmptyInv'
  <2>1. CASE SweepStep(r)
    BY <1>0, <1>1, <2>1, SweepStepKnows, FrameEmpty DEF EmptyInv
  <2>2. CASE HostStep(r)
    BY <1>0, <1>1, <2>2, HostStepKnows, IssueRebootKnows, FrameEmpty DEF EmptyInv
  <2>3. ASSUME NEW g \in Guests, GuestStep(r, g)
        PROVE  EmptyInv'
    BY <1>0, <1>1, <2>3, GuestStepKnows DEF EmptyInv
  <2>4. CASE Raise(r)
    BY <1>0, <1>1, <2>4, RaiseKnows, FrameEmpty DEF EmptyInv
  <2>5. QED
    BY <1>5, <2>1, <2>2, <2>3, <2>4 DEF RunnerStep
<1>6. QED
  BY <1>2, <1>3, <1>4, <1>5 DEF Next

\* With a poll cache that does not lag, tasks that do not outlive their timeout,
\* nodes that stop answering when they are told to reboot and starts that do not
\* race, no node ever goes down under a running guest of ours, whatever is
\* aborted, raised, failed or restarted (_run_single_host as a whole).
THEOREM RebootsEmptyNodes ==
  ASSUME {"stale", "late", "slowdown", "race"} \cap Faults = {}
  PROVE  Spec => []RebootOnlyEmpty
<1>0. "race" \notin Faults /\ "slowdown" \notin Faults /\ {"stale", "late"} \cap Faults = {}
  OBVIOUS
<1>1. Init => TypeInv /\ SweepInv /\ DutyPhases /\ BackOnlineMeansUp /\ EmptyInv
  BY TypeInit, SweepInit, DutyInit, EmptyInit
<1>2. TypeInv /\ SweepInv /\ DutyPhases /\ BackOnlineMeansUp /\ EmptyInv /\ [Next]_vars
        => TypeInv' /\ SweepInv' /\ DutyPhases' /\ BackOnlineMeansUp' /\ EmptyInv'
  BY <1>0, TypeNext, SweepNext, DutyNext, BackNext, EmptyNext
<1>3. EmptyInv => RebootOnlyEmpty
  BY DEF EmptyInv
<1>4. QED
  BY <1>1, <1>2, <1>3, PTL DEF Spec

-----------------------------------------------------------------------------
(* The place of a runner in its job's list, and the rows of its hosts.     *)

AtAHost == HostPhases \cup {"cleanup"}

\* What the row of a runner's host says, by the runner's phase.
Fits(pc, bad, raised, s) ==
  /\ pc \in {"preflight", "enter_maint", "drain"} => s = "preflight"
  /\ pc \in {"evacuate", "moving"} => s = "evacuating"
  /\ pc = "updating" => s = "updating"
  /\ pc = "awaiting" => s = "awaiting_reboot"
  /\ pc \in {"reboot", "polling"} => s = "rebooting"
  /\ pc = "leave_maint" => s \in {"awaiting_reboot", "rebooting"}
  /\ pc = "starting" => s = IF bad THEN "failed" ELSE "restoring"
  /\ pc = "restoring" => s = "restoring"
  /\ pc = "ceph" => s \in {"awaiting_reboot", "rebooting", "restoring"}
  /\ pc = "cleanup" => IF raised THEN s \notin {"absent", "queued"} ELSE s \in Terminal
  /\ pc \in HostPhases => ~raised
  /\ pc \in HostPhases \ {"moving", "starting", "restoring"} => ~bad

\* The hosts of a job, in the order of its sweep.
ListOf(j) == opts[j].hosts

\* The rows of a job that exists are those of its hosts, which it names once each;
\* they are queued until it starts, and then settled in the order of the list.
Listed(j) ==
  /\ jobs[j] = "absent" => \A n \in Nodes : rows[j][n] = "absent"
  /\ jobs[j] # "absent" =>
       /\ \A n \in Nodes : rows[j][n] # "absent" <=> \E i \in DOMAIN ListOf(j) : ListOf(j)[i] = n
       /\ \A i, k \in DOMAIN ListOf(j) : ListOf(j)[i] = ListOf(j)[k] => i = k
       /\ \A i, k \in DOMAIN ListOf(j) :
            i < k => rows[j][ListOf(j)[i]] \in Terminal \/ rows[j][ListOf(j)[k]] = "queued"
  /\ jobs[j] = "pending" => \A n \in Nodes : rows[j][n] \in {"absent", "queued"}

\* A runner with locals x works through the list of its job: the hosts before its
\* own are settled, its own is at its phase, and those to come are as it read them.
Follows(x, list, row) ==
  LET p == Len(list) - Len(x.todo) IN
  /\ p >= 0
  /\ \A i \in 1..Len(x.todo) : x.todo[i] = list[p + i] /\ x.snap[x.todo[i]] = row[x.todo[i]]
  /\ \A i \in 1..p : i < p \/ x.pc \notin AtAHost => row[list[i]] \in Terminal
  /\ x.pc \in AtAHost => p >= 1 /\ x.host = list[p] /\ Fits(x.pc, x.bad, x.raised, row[x.host])
  /\ x.pc \in {"read", "marked", "loop", "finish"} => ~x.bad /\ ~x.raised

\* A job that was asked to start exists.
Asked == \A q \in Requests : starting[q] # NoJob => jobs[starting[q]] # "absent"

\* What a runner knows of its job and of its own place in it.
Loops(r) ==
  /\ Live(r) => jobs[JobOf(r)] # "absent"
  /\ At(r, "read") => jobs[JobOf(r)] \in {"pending", "running"}
  /\ Sweeping(r) \/ At(r, "read") => Follows(runner[r], ListOf(JobOf(r)), rows[JobOf(r)])
  /\ At(r, "finish") => runner[r].todo = <<>> \/ Aborted(r)

LoopInv ==
  /\ \A j \in Jobs : Listed(j)
  /\ \A r \in Runners : Loops(r)
  /\ Asked

\* Only the row of one host of one job may change.
RowOnly(j, n) ==
  \A i \in Jobs, m \in Nodes : i # j \/ m # n => rows'[i][m] = rows[i][m]

\* A row that changes goes forward.
Forward(j, n) == rows'[j][n] = rows[j][n] \/ Rank(rows[j][n]) < Rank(rows'[j][n])

\* A step of a runner within its host.
HostMove(r) ==
  /\ Others(r) /\ UNCHANGED <<jobs, opts, aborts, starting>>
  /\ runner[r].pc \in HostPhases /\ runner'[r].pc \in AtAHost
  /\ runner'[r].todo = runner[r].todo /\ runner'[r].snap = runner[r].snap
  /\ runner'[r].host = runner[r].host
  /\ RowOnly(JobOf(r), Host(r)) /\ Forward(JobOf(r), Host(r))
  /\ Fits(runner'[r].pc, runner'[r].bad, runner'[r].raised, rows'[JobOf(r)][Host(r)])

LEMMA RowEffect ==
  ASSUME TypeInv, NEW j \in Jobs, NEW n \in Nodes, NEW s, rows' = [rows EXCEPT ![j][n] = s]
  PROVE  RowOnly(j, n) /\ rows'[j][n] = s
BY DEF TypeInv, TypeOK, RowOnly

LEMMA AtHostFacts ==
  ASSUME TypeInv, LoopInv, NEW r \in Runners, runner[r].pc \in AtAHost
  PROVE  /\ runner[r] \in RunnerType /\ JobOf(r) \in Jobs /\ Host(r) \in Nodes
         /\ Sweeping(r) /\ Live(r) /\ rows[JobOf(r)][Host(r)] \in NodeStatus
         /\ Follows(runner[r], ListOf(JobOf(r)), rows[JobOf(r)])
         /\ Fits(runner[r].pc, runner[r].bad, runner[r].raised, rows[JobOf(r)][Host(r)])
<1>1. runner[r] \in RunnerType /\ JobOf(r) \in Jobs /\ Host(r) \in Nodes
  BY RunnersAreJobs DEF TypeInv, TypeOK, HostKnown, Host, AtAHost
<1>2. Sweeping(r) /\ Live(r)
  BY DEF Sweeping, Live, AtAHost, HostPhases, Phases
<1>3. Follows(runner[r], ListOf(JobOf(r)), rows[JobOf(r)])
  BY <1>2 DEF LoopInv, Loops
<1>4. QED
  BY <1>1, <1>2, <1>3 DEF TypeInv, TypeOK, Follows, Host

\* A change of a runner's phase that sets its row, or leaves it.
LEMMA MoveRecord ==
  ASSUME TypeInv, LoopInv, NEW r \in Runners, runner[r].pc \in HostPhases,
         NEW x \in RunnerType, runner' = [runner EXCEPT ![r] = x], x.pc \in AtAHost,
         x.todo = runner[r].todo, x.snap = runner[r].snap, x.host = runner[r].host,
         NEW s \in NodeStatus,
         SetRow(r, s) \/ (UNCHANGED rows /\ s = rows[JobOf(r)][Host(r)]),
         s = rows[JobOf(r)][Host(r)] \/ Rank(rows[JobOf(r)][Host(r)]) < Rank(s),
         Fits(x.pc, x.bad, x.raised, s), UNCHANGED <<jobs, opts, aborts, starting>>
  PROVE  HostMove(r)
<1>1. JobOf(r) \in Jobs /\ Host(r) \in Nodes
  BY AtHostFacts DEF AtAHost
<1>2. RowOnly(JobOf(r), Host(r)) /\ rows'[JobOf(r)][Host(r)] = s
  <2>1. CASE SetRow(r, s)
    BY <1>1, <2>1, RowEffect DEF SetRow
  <2>2. CASE UNCHANGED rows /\ s = rows[JobOf(r)][Host(r)]
    BY <2>2 DEF RowOnly
  <2>3. QED
    BY <2>1, <2>2
<1>3. runner'[r] = x /\ Others(r)
  BY DEF TypeInv, TypeOK, Others
<1>4. QED
  BY <1>2, <1>3 DEF HostMove, Forward

LEMMA MoveGoto ==
  ASSUME TypeInv, LoopInv, NEW r \in Runners, runner[r].pc \in HostPhases,
         NEW p \in AtAHost, Goto(r, p), NEW s \in NodeStatus,
         SetRow(r, s) \/ (UNCHANGED rows /\ s = rows[JobOf(r)][Host(r)]),
         s = rows[JobOf(r)][Host(r)] \/ Rank(rows[JobOf(r)][Host(r)]) < Rank(s),
         Fits(p, runner[r].bad, runner[r].raised, s), UNCHANGED <<jobs, opts, aborts, starting>>
  PROVE  HostMove(r)
<1> DEFINE x == [runner[r] EXCEPT !.pc = p]
<1>1. runner[r] \in RunnerType /\ p \in Phases
  BY DEF TypeInv, TypeOK, AtAHost, HostPhases, Phases
<1>2. /\ x \in RunnerType /\ x.pc = p /\ x.todo = runner[r].todo /\ x.snap = runner[r].snap
      /\ x.host = runner[r].host /\ x.bad = runner[r].bad /\ x.raised = runner[r].raised
      /\ runner' = [runner EXCEPT ![r] = x]
  BY <1>1 DEF RunnerType, Goto, TypeInv, TypeOK
<1> HIDE DEF x
<1>3. QED
  BY <1>2, MoveRecord

LEMMA RankOfFailed ==
  ASSUME NEW s \in NodeStatus \ Terminal
  PROVE  Rank(s) < Rank("failed") /\ Rank(s) < Rank("done") /\ Rank(s) < Rank("skipped")
BY DEF NodeStatus, InFlight, Terminal, Rank

LEMMA FailMoves ==
  ASSUME TypeInv, LoopInv, NEW r \in Runners, runner[r].pc \in HostPhases \ {"starting"}, 
         SetRow(r, "failed"), Goto(r, "cleanup"), UNCHANGED <<jobs, opts, aborts, starting>>
  PROVE  HostMove(r)
<1>1. /\ rows[JobOf(r)][Host(r)] \in NodeStatus
      /\ Fits(runner[r].pc, runner[r].bad, runner[r].raised, rows[JobOf(r)][Host(r)])
  BY AtHostFacts DEF AtAHost
<1>2. rows[JobOf(r)][Host(r)] \in NodeStatus \ Terminal /\ ~runner[r].raised
  BY <1>1 DEF Fits, HostPhases, Phases, NodeStatus, InFlight, Terminal
<1>3. Fits("cleanup", runner[r].bad, runner[r].raised, "failed")
  BY <1>2 DEF Fits, HostPhases, Terminal
<1>4. "cleanup" \in AtAHost /\ "failed" \in NodeStatus
  BY DEF AtAHost, NodeStatus, Terminal
<1>5. Rank(rows[JobOf(r)][Host(r)]) < Rank("failed")
  BY <1>2, RankOfFailed
<1>6. QED
  BY <1>3, <1>4, <1>5, MoveGoto

\* Where a runner is at its host, its row is settled only after a failed shutdown.
LEMMA RowAtHost ==
  ASSUME TypeInv, LoopInv, NEW r \in Runners, runner[r].pc \in HostPhases
  PROVE  /\ rows[JobOf(r)][Host(r)] \in NodeStatus /\ ~runner[r].raised
         /\ Fits(runner[r].pc, runner[r].bad, runner[r].raised, rows[JobOf(r)][Host(r)])
         /\ runner[r] \in RunnerType /\ JobOf(r) \in Jobs /\ Host(r) \in Nodes
BY AtHostFacts DEF AtAHost, Fits

LEMMA DrainMoves ==
  ASSUME TypeInv, LoopInv, NEW r \in Runners,
         \/ PreflightFails(r) \/ PreflightPasses(r) \/ EnterMaintenance(r)
         \/ EnterMaintenanceFails(r) \/ HaDrained(r) \/ DrainFails(r)
  PROVE  HostMove(r)
<1>0. /\ runner[r].pc \in HostPhases \ {"starting"} /\ UNCHANGED <<jobs, opts, aborts, starting>>
      /\ runner[r].pc \in {"preflight", "enter_maint", "drain"}
  BY DEF PreflightFails, PreflightPasses, EnterMaintenance, EnterMaintenanceFails, HaDrained,
         DrainFails, FailHost, At, HostPhases, Phases, memory, db
<1>1. /\ rows[JobOf(r)][Host(r)] = "preflight" /\ ~runner[r].raised /\ ~runner[r].bad
      /\ runner[r] \in RunnerType
  BY <1>0, RowAtHost DEF Fits
<1>2. /\ {"preflight", "evacuating"} \subseteq NodeStatus
      /\ {"enter_maint", "drain", "evacuate"} \subseteq AtAHost \cap Phases
  BY DEF NodeStatus, InFlight, AtAHost, HostPhases, Phases
<1>11. Rank("preflight") < Rank("evacuating")
  BY DEF Rank, Terminal
<1>3. Fits("evacuate", runner[r].bad, runner[r].raised, "evacuating")
  BY <1>1 DEF Fits
<1>4. ASSUME SetRow(r, "evacuating"), Goto(r, "evacuate")
      PROVE  HostMove(r)
  BY <1>0, <1>1, <1>2, <1>3, <1>4, <1>11, MoveGoto
<1>5. ASSUME NEW x \in RunnerType, runner' = [runner EXCEPT ![r] = x], UNCHANGED rows,
             x.pc \in {"enter_maint", "drain"}, x.todo = runner[r].todo, x.snap = runner[r].snap,
             x.host = runner[r].host, x.bad = runner[r].bad, x.raised = runner[r].raised
      PROVE  HostMove(r)
  <2>1. Fits(x.pc, x.bad, x.raised, "preflight") /\ x.pc \in AtAHost
    BY <1>1, <1>2, <1>5 DEF Fits
  <2>2. QED
    BY <1>0, <1>1, <1>2, <1>5, <2>1, MoveRecord
<1>6. CASE PreflightPasses(r) /\ HaServicesOn(Host(r)) # {}
  <2> DEFINE x == [runner[r] EXCEPT !.pc = "enter_maint", !.has = HaServicesOn(Host(r))]
  <2>1. HaServicesOn(Host(r)) \subseteq Guests
    BY ConstantsOK DEF HaServicesOn
  <2>2. x \in RunnerType /\ runner' = [runner EXCEPT ![r] = x] /\ UNCHANGED rows
    BY <1>1, <1>2, <1>6, <2>1 DEF PreflightPasses, RunnerType, TypeInv, TypeOK
  <2>3. /\ x.pc = "enter_maint" /\ x.todo = runner[r].todo /\ x.snap = runner[r].snap
        /\ x.host = runner[r].host /\ x.bad = runner[r].bad /\ x.raised = runner[r].raised
    BY <1>1 DEF RunnerType
  <2> HIDE DEF x
  <2>4. QED
    BY <1>5, <2>2, <2>3
<1>7. CASE EnterMaintenance(r)
  <2> DEFINE x == [runner[r] EXCEPT !.pc = "drain", !.haMaint = TRUE]
  <2>1. x \in RunnerType /\ runner' = [runner EXCEPT ![r] = x] /\ UNCHANGED rows
    BY <1>1, <1>2, <1>7 DEF EnterMaintenance, RunnerType, TypeInv, TypeOK, db
  <2>2. /\ x.pc = "drain" /\ x.todo = runner[r].todo /\ x.snap = runner[r].snap
        /\ x.host = runner[r].host /\ x.bad = runner[r].bad /\ x.raised = runner[r].raised
    BY <1>1 DEF RunnerType
  <2> HIDE DEF x
  <2>3. QED
    BY <1>5, <2>1, <2>2
<1>8. CASE (PreflightPasses(r) /\ HaServicesOn(Host(r)) = {}) \/ HaDrained(r)
  BY <1>4, <1>8 DEF PreflightPasses, HaDrained
<1>9. CASE PreflightFails(r) \/ EnterMaintenanceFails(r) \/ DrainFails(r)
  BY <1>0, <1>9, FailMoves DEF PreflightFails, EnterMaintenanceFails, DrainFails, FailHost
<1>10. QED
  BY <1>6, <1>7, <1>8, <1>9

LEMMA EvacuateMoves ==
  ASSUME TypeInv, LoopInv, NEW r \in Runners,
         \/ PlanEvacuation(r) \/ Shortfall(r) \/ Evacuated(r) \/ EvacuationFails(r)
         \/ AptUpgrade(r) \/ AptFails(r)
  PROVE  HostMove(r)
<1>0. /\ runner[r].pc \in HostPhases \ {"starting"} /\ UNCHANGED <<jobs, opts, aborts, starting>>
      /\ runner[r].pc \in {"evacuate", "moving", "updating"}
  BY DEF PlanEvacuation, Shortfall, Evacuated, EvacuationFails, AptUpgrade, AptFails,
         FailHost, At, HostPhases, Phases, memory, db
<1>1. /\ rows[JobOf(r)][Host(r)] =
           (IF runner[r].pc = "updating" THEN "updating" ELSE "evacuating")
      /\ ~runner[r].raised /\ (runner[r].pc # "moving" => ~runner[r].bad)
      /\ runner[r] \in RunnerType /\ Host(r) \in Nodes
  BY <1>0, RowAtHost DEF Fits
<1>2. /\ {"evacuating", "updating", "awaiting_reboot", "failed"} \subseteq NodeStatus
      /\ Rank("evacuating") < Rank("updating") /\ Rank("updating") < Rank("awaiting_reboot")
      /\ Rank("evacuating") < Rank("failed")
      /\ {"moving", "updating", "awaiting", "starting"} \subseteq AtAHost \cap Phases
  BY DEF NodeStatus, InFlight, Terminal, AtAHost, HostPhases, Phases, Rank
<1>3. CASE PlanEvacuation(r)
  <2>1. PICK place \in [VmsOnNode(Host(r)) \ (IF InPlace(r) THEN {} ELSE runner[r].has) ->
                          IF InPlace(r) THEN {NoNode} ELSE runner[r].targets] :
          LET leaving == VmsOnNode(Host(r)) \ (IF InPlace(r) THEN {} ELSE runner[r].has) IN
          runner' = [runner EXCEPT ![r].pc = "moving", ![r].pending = leaving,
            ![r].plan = [g \in Guests |-> IF g \in leaving THEN place[g] ELSE NoNode]]
    BY <1>3 DEF PlanEvacuation
  <2> DEFINE leaving == VmsOnNode(Host(r)) \ (IF InPlace(r) THEN {} ELSE runner[r].has)
             plan == [g \in Guests |-> IF g \in leaving THEN place[g] ELSE NoNode]
             x == [runner[r] EXCEPT !.pc = "moving", !.pending = leaving, !.plan = plan]
  <2>2. leaving \subseteq Guests
    BY DEF VmsOnNode, TypeInv, TypeOK
  <2>3. plan \in [Guests -> Nodes \cup {NoNode}]
    BY <1>1, <2>2 DEF RunnerType
  <2> HIDE DEF leaving, plan
  <2>4. runner' = [runner EXCEPT ![r] = x]
    BY <1>1, <2>1 DEF RunnerType, TypeInv, TypeOK, leaving, plan
  <2>5. x \in RunnerType
    BY <1>1, <1>2, <2>2, <2>3 DEF RunnerType
  <2>6. /\ x.pc = "moving" /\ x.todo = runner[r].todo /\ x.snap = runner[r].snap
        /\ x.host = runner[r].host /\ x.bad = runner[r].bad /\ x.raised = runner[r].raised
    BY <1>1 DEF RunnerType
  <2> HIDE DEF x
  <2>7. runner[r].pc = "evacuate" /\ UNCHANGED rows
    BY <1>3 DEF PlanEvacuation, At, db
  <2>8. Fits(x.pc, x.bad, x.raised, "evacuating")
    BY <1>1, <2>6, <2>7 DEF Fits
  <2>9. QED
    BY <1>0, <1>1, <1>2, <2>4, <2>5, <2>6, <2>7, <2>8, MoveRecord
<1>4. CASE Evacuated(r)
  <2>1. /\ Fits("updating", runner[r].bad, runner[r].raised, "updating")
        /\ rows[JobOf(r)][Host(r)] = "evacuating" /\ Goto(r, "updating") /\ SetRow(r, "updating")
    BY <1>1, <1>4 DEF Evacuated, At, Fits
  <2>2. QED
    BY <1>0, <1>2, <2>1, MoveGoto
<1>5. CASE EvacuationFails(r)
  <2>1. /\ rows[JobOf(r)][Host(r)] = "evacuating" /\ SetRow(r, "failed") /\ runner[r].bad
        /\ runner[r].pc = "moving"
    BY <1>1, <1>5 DEF EvacuationFails, At
  <2>2. CASE ~InPlace(r)
    BY <1>0, <1>5, <2>1, <2>2, FailMoves DEF EvacuationFails
  <2>3. CASE InPlace(r)
    <3> DEFINE x == [runner[r] EXCEPT !.pc = "starting", !.pending = runner[r].moved]
    <3>1. x \in RunnerType /\ runner' = [runner EXCEPT ![r] = x]
      BY <1>1, <1>2, <1>5, <2>3 DEF EvacuationFails, RunnerType, TypeInv, TypeOK
    <3>2. /\ x.pc = "starting" /\ x.todo = runner[r].todo /\ x.snap = runner[r].snap
          /\ x.host = runner[r].host /\ x.bad = runner[r].bad /\ x.raised = runner[r].raised
      BY <1>1 DEF RunnerType
    <3> HIDE DEF x
    <3>3. Fits(x.pc, x.bad, x.raised, "failed")
      BY <1>1, <2>1, <3>2 DEF Fits
    <3>4. QED
      BY <1>0, <1>2, <2>1, <3>1, <3>2, <3>3, MoveRecord
  <2>4. QED
    BY <2>2, <2>3
<1>6. CASE AptUpgrade(r)
  <2>1. /\ Fits("awaiting", runner[r].bad, runner[r].raised, "awaiting_reboot")
        /\ rows[JobOf(r)][Host(r)] = "updating" /\ Goto(r, "awaiting")
        /\ SetRow(r, "awaiting_reboot")
    BY <1>1, <1>6 DEF AptUpgrade, At, Fits
  <2>2. QED
    BY <1>0, <1>2, <2>1, MoveGoto
<1>7. CASE Shortfall(r) \/ AptFails(r)
  BY <1>0, <1>7, FailMoves DEF Shortfall, AptFails, FailHost
<1>8. QED
  BY <1>3, <1>4, <1>5, <1>6, <1>7

LEMMA RebootMoves ==
  ASSUME TypeInv, LoopInv, NEW r \in Runners,
         \/ SkipReboot(r) \/ PrepareReboot(r) \/ AwaitEnds(r)
         \/ IssueReboot(r) \/ BackOnline(r) \/ RebootTimesOut(r)
  PROVE  HostMove(r)
<1>0. /\ runner[r].pc \in HostPhases \ {"starting"} /\ UNCHANGED <<jobs, opts, aborts, starting>>
      /\ runner[r].pc \in {"awaiting", "reboot", "polling"}
  BY DEF SkipReboot, PrepareReboot, AwaitEnds, IssueReboot, BackOnline, RebootTimesOut,
         FailHost, At, HostPhases, Phases, memory, db
<1>1. /\ rows[JobOf(r)][Host(r)] =
           (IF runner[r].pc = "awaiting" THEN "awaiting_reboot" ELSE "rebooting")
      /\ ~runner[r].raised /\ ~runner[r].bad /\ runner[r] \in RunnerType
  BY <1>0, RowAtHost DEF Fits
<1>2. /\ {"awaiting_reboot", "rebooting"} \subseteq NodeStatus
      /\ {"reboot", "polling", "leave_maint"} \subseteq AtAHost \cap Phases
      /\ Rank("awaiting_reboot") < Rank("rebooting")
  BY DEF NodeStatus, InFlight, Terminal, AtAHost, HostPhases, Phases, Rank
<1>3. ASSUME NEW x \in RunnerType, runner' = [runner EXCEPT ![r] = x], UNCHANGED rows,
             x.pc = "leave_maint", x.todo = runner[r].todo, x.snap = runner[r].snap,
             x.host = runner[r].host, x.bad = runner[r].bad, x.raised = runner[r].raised
      PROVE  HostMove(r)
  <2>1. Fits(x.pc, x.bad, x.raised, rows[JobOf(r)][Host(r)])
    BY <1>1, <1>3 DEF Fits
  <2>2. QED
    BY <1>0, <1>1, <1>2, <1>3, <2>1, MoveRecord
<1>4. CASE SkipReboot(r)
  <2> DEFINE x == [runner[r] EXCEPT !.pc = "leave_maint", !.choice = "skip"]
  <2>1. x \in RunnerType /\ runner' = [runner EXCEPT ![r] = x] /\ UNCHANGED rows
    BY <1>1, <1>2, <1>4 DEF SkipReboot, RunnerType, Choices, TypeInv, TypeOK, db
  <2>2. /\ x.pc = "leave_maint" /\ x.todo = runner[r].todo /\ x.snap = runner[r].snap
        /\ x.host = runner[r].host /\ x.bad = runner[r].bad /\ x.raised = runner[r].raised
    BY <1>1 DEF RunnerType
  <2> HIDE DEF x
  <2>3. QED
    BY <1>3, <2>1, <2>2
<1>5. CASE BackOnline(r)
  <2> DEFINE x == [runner[r] EXCEPT !.pc = "leave_maint", !.nooutOn = FALSE]
  <2>1. x \in RunnerType /\ runner' = [runner EXCEPT ![r] = x] /\ UNCHANGED rows
    BY <1>1, <1>2, <1>5 DEF BackOnline, RunnerType, TypeInv, TypeOK, db
  <2>2. /\ x.pc = "leave_maint" /\ x.todo = runner[r].todo /\ x.snap = runner[r].snap
        /\ x.host = runner[r].host /\ x.bad = runner[r].bad /\ x.raised = runner[r].raised
    BY <1>1 DEF RunnerType
  <2> HIDE DEF x
  <2>3. QED
    BY <1>3, <2>1, <2>2
<1>6. CASE PrepareReboot(r)
  <2> DEFINE x == [runner[r] EXCEPT !.pc = "reboot", !.choice = "reboot",
                                    !.nooutOn = runner[r].gate]
  <2>1. x \in RunnerType /\ runner' = [runner EXCEPT ![r] = x] /\ SetRow(r, "rebooting")
    BY <1>1, <1>2, <1>6 DEF PrepareReboot, RunnerType, Choices, TypeInv, TypeOK
  <2>2. /\ x.pc = "reboot" /\ x.todo = runner[r].todo /\ x.snap = runner[r].snap
        /\ x.host = runner[r].host /\ x.bad = runner[r].bad /\ x.raised = runner[r].raised
    BY <1>1 DEF RunnerType
  <2> HIDE DEF x
  <2>3. Fits(x.pc, x.bad, x.raised, "rebooting") /\ rows[JobOf(r)][Host(r)] = "awaiting_reboot"
    BY <1>1, <1>6, <2>2 DEF Fits, PrepareReboot, At
  <2>4. QED
    BY <1>0, <1>2, <2>1, <2>2, <2>3, MoveRecord
<1>7. CASE IssueReboot(r)
  <2>1. /\ Goto(r, "polling") /\ UNCHANGED rows /\ rows[JobOf(r)][Host(r)] = "rebooting"
        /\ Fits("polling", runner[r].bad, runner[r].raised, "rebooting")
    BY <1>1, <1>7 DEF IssueReboot, At, db, Fits
  <2>2. QED
    BY <1>0, <1>2, <2>1, MoveGoto
<1>8. CASE AwaitEnds(r) \/ RebootTimesOut(r)
  BY <1>0, <1>8, FailMoves DEF AwaitEnds, RebootTimesOut, FailHost
<1>9. QED
  BY <1>4, <1>5, <1>6, <1>7, <1>8

LEMMA LeaveMoves ==
  ASSUME TypeInv, LoopInv, NEW r \in Runners, LeaveMaintenance(r)
  PROVE  HostMove(r)
<1>0. /\ runner[r].pc = "leave_maint" /\ UNCHANGED <<jobs, opts, aborts, starting>>
      /\ runner[r].pc \in HostPhases
  BY DEF LeaveMaintenance, At, HostPhases, Phases, memory
<1>1. /\ rows[JobOf(r)][Host(r)] \in {"awaiting_reboot", "rebooting"}
      /\ ~runner[r].raised /\ ~runner[r].bad /\ runner[r] \in RunnerType
  BY <1>0, RowAtHost DEF Fits
<1>2. PICK left \in BOOLEAN :
        runner' = [runner EXCEPT ![r].pc = AfterReboot(r).pc,
                                 ![r].pending = AfterReboot(r).pending,
                                 ![r].haMaint = @ /\ ~left]
  BY DEF LeaveMaintenance
<1> DEFINE p == AfterReboot(r).pc
           guests == AfterReboot(r).pending
           duty == runner[r].haMaint /\ ~left
           x == [runner[r] EXCEPT !.pc = p, !.pending = guests, !.haMaint = duty]
<1>3. /\ p \in {"starting", "restoring", "ceph"} /\ guests \in SUBSET Guests
      /\ duty \in BOOLEAN
  BY <1>1 DEF AfterReboot, RunnerType
<1>4. runner' = [runner EXCEPT ![r] = x]
  BY <1>1, <1>2 DEF RunnerType, TypeInv, TypeOK
<1> HIDE DEF p, guests, duty
<1>5. x \in RunnerType /\ x.pc = p
  BY <1>1, <1>3 DEF RunnerType, Phases
<1>6. /\ x.todo = runner[r].todo /\ x.snap = runner[r].snap
      /\ x.host = runner[r].host /\ x.bad = runner[r].bad /\ x.raised = runner[r].raised
  BY <1>1 DEF RunnerType
<1> HIDE DEF x
<1> DEFINE s == IF p = "ceph" THEN rows[JobOf(r)][Host(r)] ELSE "restoring"
<1>7. SetRow(r, s) \/ (UNCHANGED rows /\ s = rows[JobOf(r)][Host(r)])
  BY DEF LeaveMaintenance, p
<1>8. /\ s \in NodeStatus /\ Fits(x.pc, x.bad, x.raised, s) /\ x.pc \in AtAHost
      /\ s = rows[JobOf(r)][Host(r)] \/ Rank(rows[JobOf(r)][Host(r)]) < Rank(s)
  <2>1. CASE p = "ceph"
    BY <1>1, <1>5, <1>6, <2>1 DEF NodeStatus, InFlight, Fits, AtAHost, HostPhases, Phases
  <2>2. CASE p # "ceph"
    <3>1. Rank("awaiting_reboot") < Rank("restoring") /\ Rank("rebooting") < Rank("restoring")
      BY DEF Rank, Terminal
    <3>2. s = "restoring" /\ p \in {"starting", "restoring"}
      BY <1>3, <2>2
    <3>3. QED
      BY <1>1, <1>5, <1>6, <3>1, <3>2 DEF NodeStatus, InFlight, Fits, AtAHost, HostPhases, Phases
  <2>3. QED
    BY <2>1, <2>2
<1> HIDE DEF s
<1>9. QED
  BY <1>0, <1>4, <1>5, <1>6, <1>7, <1>8, MoveRecord

LEMMA ReturnMoves ==
  ASSUME TypeInv, LoopInv, NEW r \in Runners,
         \/ GuestsStarted(r) \/ Restored(r) \/ RestoreFails(r)
         \/ HostDone(r) \/ CephWaitAborted(r)
  PROVE  HostMove(r)
<1>0. /\ runner[r].pc \in HostPhases /\ UNCHANGED <<jobs, opts, aborts, starting>>
      /\ runner[r].pc \in {"starting", "restoring", "ceph"}
  BY DEF GuestsStarted, Restored, RestoreFails, HostDone, CephWaitAborted,
         FailHost, At, HostPhases, Phases, memory, db
<1>1. /\ rows[JobOf(r)][Host(r)] \in NodeStatus /\ ~runner[r].raised
      /\ Fits(runner[r].pc, runner[r].bad, runner[r].raised, rows[JobOf(r)][Host(r)])
  BY <1>0, RowAtHost
<1>2. {"ceph", "cleanup"} \subseteq AtAHost /\ {"done", "skipped"} \subseteq NodeStatus \cap Terminal
  BY DEF AtAHost, HostPhases, Phases, NodeStatus, Terminal
<1>3. CASE GuestsStarted(r) \/ Restored(r)
  <2> DEFINE p == IF runner[r].pc = "starting" /\ runner[r].bad THEN "cleanup" ELSE "ceph"
  <2>1. Goto(r, p) /\ UNCHANGED rows /\ runner[r].pc \in {"starting", "restoring"}
    BY <1>3 DEF GuestsStarted, Restored, At, db
  <2>2. Fits(p, runner[r].bad, runner[r].raised, rows[JobOf(r)][Host(r)])
    BY <1>1, <1>3 DEF GuestsStarted, Restored, At, Fits, Terminal, HostPhases, Phases
  <2>3. p \in AtAHost
    BY <1>2
  <2> HIDE DEF p
  <2>4. QED
    BY <1>0, <1>1, <2>1, <2>2, <2>3, MoveGoto
<1>4. CASE HostDone(r)
  <2> DEFINE s == IF runner[r].choice = "skip" THEN "skipped" ELSE "done"
  <2>1. runner[r].pc = "ceph" /\ SetRow(r, s) /\ Goto(r, "cleanup")
    BY <1>4 DEF HostDone, At
  <2>2. rows[JobOf(r)][Host(r)] \in NodeStatus \ Terminal
    BY <1>1, <2>1 DEF Fits, Terminal
  <2>3. s \in NodeStatus \cap Terminal /\ Rank(rows[JobOf(r)][Host(r)]) < Rank(s)
    BY <1>2, <2>2, RankOfFailed
  <2> HIDE DEF s
  <2>4. Fits("cleanup", runner[r].bad, runner[r].raised, s)
    BY <1>1, <2>3 DEF Fits, HostPhases
  <2>5. QED
    BY <1>0, <1>2, <2>1, <2>3, <2>4, MoveGoto
<1>5. CASE RestoreFails(r) \/ CephWaitAborted(r)
  <2>1. runner[r].pc \in HostPhases \ {"starting"}
    BY <1>0, <1>5 DEF RestoreFails, CephWaitAborted, At
  <2>2. QED
    BY <1>0, <1>5, <2>1, FailMoves DEF RestoreFails, CephWaitAborted, FailHost
<1>6. QED
  BY <1>3, <1>4, <1>5

LEMMA HostStepMoves ==
  ASSUME TypeInv, LoopInv, NEW r \in Runners, HostStep(r)
  PROVE  HostMove(r)
BY DrainMoves, EvacuateMoves, RebootMoves, LeaveMoves, ReturnMoves DEF HostStep

LEMMA GuestStepMoves ==
  ASSUME TypeInv, LoopInv, NEW r \in Runners, NEW g \in Guests, GuestStep(r, g)
  PROVE  HostMove(r)
<1>0. /\ runner[r].pc \in HostPhases /\ UNCHANGED <<jobs, opts, aborts, starting, rows>>
      /\ runner[r].pc \in {"moving", "starting", "restoring"}
  BY DEF GuestStep, MoveGuest, MoveGuestFails, StartGuest, RestoreGuest, RestoreGuestFails,
         At, HostPhases, Phases, memory, db
<1>1. /\ rows[JobOf(r)][Host(r)] \in NodeStatus /\ ~runner[r].raised /\ runner[r] \in RunnerType
      /\ Fits(runner[r].pc, runner[r].bad, runner[r].raised, rows[JobOf(r)][Host(r)])
  BY <1>0, RowAtHost
<1>2. PICK gone \in SUBSET Guests, moved \in SUBSET Guests, bad \in BOOLEAN :
        /\ runner' = [runner EXCEPT ![r] = [runner[r] EXCEPT !.pending = gone, !.moved = moved,
                                                             !.bad = bad]]
        /\ runner[r].pc = "starting" => bad = runner[r].bad
  <2>1. /\ runner[r].pending \ {g} \in SUBSET Guests /\ runner[r].moved \in SUBSET Guests
        /\ runner[r].moved \cup {g} \in SUBSET Guests /\ runner[r].bad \in BOOLEAN
    BY <1>1 DEF RunnerType
  <2>2. CASE MoveGuest(r, g)
    <3>1. runner' = [runner EXCEPT ![r] = [runner[r] EXCEPT !.pending = runner[r].pending \ {g},
                                              !.moved = runner[r].moved \cup {g},
                                              !.bad = runner[r].bad]]
      BY <1>1, <2>2 DEF MoveGuest, Handled, RunnerType, TypeInv, TypeOK
    <3>2. QED
      BY <2>1, <2>2, <3>1 DEF MoveGuest, At
  <2>3. CASE MoveGuestFails(r, g) \/ RestoreGuestFails(r, g)
    <3>1. runner' = [runner EXCEPT ![r] = [runner[r] EXCEPT !.pending = runner[r].pending \ {g},
                                              !.moved = runner[r].moved, !.bad = TRUE]]
      BY <1>1, <2>3 DEF MoveGuestFails, RestoreGuestFails, Handled, RunnerType, TypeInv, TypeOK
    <3>2. QED
      BY <2>1, <2>3, <3>1 DEF MoveGuestFails, RestoreGuestFails, At
  <2>4. CASE StartGuest(r, g) \/ RestoreGuest(r, g)
    <3>1. runner' = [runner EXCEPT ![r] = [runner[r] EXCEPT !.pending = runner[r].pending \ {g},
                                              !.moved = runner[r].moved, !.bad = runner[r].bad]]
      BY <1>1, <2>4 DEF StartGuest, RestoreGuest, RunnerType, TypeInv, TypeOK
    <3>2. QED
      BY <2>1, <3>1
  <2>5. QED
    BY <2>2, <2>3, <2>4 DEF GuestStep
<1> DEFINE x == [runner[r] EXCEPT !.pending = gone, !.moved = moved, !.bad = bad]
<1>3. x \in RunnerType
  BY <1>1 DEF RunnerType
<1>4. /\ x.pc = runner[r].pc /\ x.todo = runner[r].todo /\ x.snap = runner[r].snap
      /\ x.host = runner[r].host /\ x.bad = bad /\ x.raised = runner[r].raised
  BY <1>1 DEF RunnerType
<1>5. runner' = [runner EXCEPT ![r] = x]
  BY <1>2
<1> HIDE DEF x
<1>6. Fits(x.pc, x.bad, x.raised, rows[JobOf(r)][Host(r)]) /\ x.pc \in AtAHost
  BY <1>0, <1>1, <1>2, <1>4 DEF Fits, AtAHost
<1>7. QED
  BY <1>0, <1>1, <1>3, <1>4, <1>5, <1>6, MoveRecord

\* An exception inside a host leaves its row as it is.
LEMMA RaiseMoves ==
  ASSUME TypeInv, LoopInv, NEW r \in Runners, Raise(r), runner[r].pc \in HostPhases
  PROVE  HostMove(r)
<1>1. /\ rows[JobOf(r)][Host(r)] \in NodeStatus /\ runner[r] \in RunnerType
      /\ Fits(runner[r].pc, runner[r].bad, runner[r].raised, rows[JobOf(r)][Host(r)])
  BY RowAtHost
<1> DEFINE x == [runner[r] EXCEPT !.pc = "cleanup", !.raised = TRUE]
<1>2. runner' = [runner EXCEPT ![r] = x] /\ UNCHANGED <<rows, jobs, opts, aborts, starting>>
  BY <1>1 DEF Raise, HostPhases, Phases, RunnerType, TypeInv, TypeOK, db, memory
<1>3. /\ x.pc = "cleanup" /\ x.todo = runner[r].todo /\ x.snap = runner[r].snap
      /\ x.host = runner[r].host /\ x.raised /\ x \in RunnerType
  BY <1>1 DEF RunnerType, Phases
<1> HIDE DEF x
<1>4. Fits(x.pc, x.bad, x.raised, rows[JobOf(r)][Host(r)]) /\ x.pc \in AtAHost
  BY <1>1, <1>3 DEF Fits, AtAHost, HostPhases, Phases
<1>5. QED
  BY <1>1, <1>2, <1>3, <1>4, MoveRecord

-----------------------------------------------------------------------------
(* A runner works through the list of its job in order.                    *)

\* Where one runner is alive at most, only its part of LoopInv needs a look.
LEMMA OneLoops ==
  ASSUME NEW r \in Runners, Others(r), \A other \in Runners \ {r} : ~Live(other),
         \A j \in Jobs : Listed(j)', Asked', Loops(r)'
  PROVE  LoopInv'
<1>1. ASSUME NEW other \in Runners \ {r}
      PROVE  Loops(other)'
  BY <1>1 DEF Others, Live, Loops, Sweeping, At
<1>2. QED
  BY <1>1 DEF LoopInv

\* The hosts of a job that exists: those before, at and after a position differ.
LEMMA ListFacts ==
  ASSUME TypeInv, LoopInv, NEW j \in Jobs, jobs[j] # "absent"
  PROVE  /\ ListOf(j) \in Seq(Nodes) /\ Len(ListOf(j)) \in Nat
         /\ DOMAIN ListOf(j) = 1..Len(ListOf(j))
         /\ \A i \in 1..Len(ListOf(j)) : ListOf(j)[i] \in Nodes
         /\ \A i, k \in 1..Len(ListOf(j)) : ListOf(j)[i] = ListOf(j)[k] => i = k
<1>1. ListOf(j) \in Seq(Nodes)
  BY DEF TypeInv, TypeOK, OptionType, ListOf
<1>2. QED
  BY <1>1 DEF LoopInv, Listed

\* A job whose rows do not change keeps to its list.
LEMMA ListedStays ==
  ASSUME TypeInv, LoopInv, NEW i \in Jobs, UNCHANGED opts, jobs'[i] = jobs[i],
         \A n \in Nodes : rows'[i][n] = rows[i][n]
  PROVE  Listed(i)'
<1>1. Listed(i) /\ ListOf(i)' = ListOf(i)
  BY DEF LoopInv, ListOf
<1>2. CASE jobs[i] = "absent"
  BY <1>1, <1>2 DEF Listed
<1>3. CASE jobs[i] # "absent"
  <2>1. /\ DOMAIN ListOf(i) = 1..Len(ListOf(i))
        /\ \A k \in DOMAIN ListOf(i) : ListOf(i)[k] \in Nodes
    BY <1>3, ListFacts
  <2>2. \A k \in DOMAIN ListOf(i) : rows'[i][ListOf(i)[k]] = rows[i][ListOf(i)[k]]
    BY <2>1
  <2>3. QED
    BY <1>1, <1>3, <2>2 DEF Listed
<1>4. QED
  BY <1>2, <1>3

\* A row of a host that has been reached, and is not queued again, keeps the order
\* of its job's list.
LEMMA ListedStep ==
  ASSUME TypeInv, LoopInv, NEW j \in Jobs, jobs[j] # "absent", NEW p \in 1..Len(ListOf(j)),
         \A i \in 1..(p - 1) : rows[j][ListOf(j)[i]] \in Terminal,
         rows[j][ListOf(j)[p]] \notin Terminal \/ rows'[j][ListOf(j)[p]] \in Terminal,
         rows'[j][ListOf(j)[p]] \notin {"absent", "queued"},
         RowOnly(j, ListOf(j)[p]), UNCHANGED opts,
         NEW s, jobs' = [jobs EXCEPT ![j] = s], s \notin {"absent", "pending"}
  PROVE  \A i \in Jobs : Listed(i)'
<1>0. /\ DOMAIN ListOf(j) = 1..Len(ListOf(j)) /\ Len(ListOf(j)) \in Nat
      /\ \A i \in 1..Len(ListOf(j)) : ListOf(j)[i] \in Nodes
      /\ \A i, k \in 1..Len(ListOf(j)) : ListOf(j)[i] = ListOf(j)[k] => i = k
      /\ ListOf(j)' = ListOf(j)
  BY ListFacts DEF ListOf
<1>1. ASSUME NEW i \in Jobs \ {j}
      PROVE  Listed(i)'
  BY <1>1, ListedStays DEF RowOnly, TypeInv, TypeOK
<1>2. Listed(j)'
  <2> DEFINE L == ListOf(j)
             R == rows[j]
             S == rows'[j]
  <2>1. \A n \in Nodes : n # L[p] => S[n] = R[n]
    BY DEF RowOnly
  <2>2. /\ \A n \in Nodes : R[n] # "absent" <=> \E i \in 1..Len(L) : L[i] = n
        /\ \A i, k \in 1..Len(L) : i < k => R[L[i]] \in Terminal \/ R[L[k]] = "queued"
    BY <1>0 DEF LoopInv, Listed
  <2>3. jobs'[j] = s
    BY DEF TypeInv, TypeOK
  <2> HIDE DEF L, R, S
  <2>4. \A n \in Nodes : S[n] # "absent" <=> \E i \in 1..Len(L) : L[i] = n
    BY <1>0, <2>1, <2>2 DEF L, S
  <2>5. ASSUME NEW i \in 1..Len(L), NEW k \in 1..Len(L), i < k
        PROVE  S[L[i]] \in Terminal \/ S[L[k]] = "queued"
    <3>1. L[i] # L[k] /\ L[i] \in Nodes /\ L[k] \in Nodes
      BY <1>0, <2>5 DEF L
    <3>2. CASE i = p
      <4>1. S[L[k]] = R[L[k]]
        BY <2>1, <3>1, <3>2
      <4>2. QED
        BY <2>2, <2>5, <3>2, <4>1 DEF L, R, S
    <3>3. CASE k = p
      <4>1. i \in 1..(p - 1) /\ S[L[i]] = R[L[i]]
        BY <1>0, <2>1, <2>5, <3>1, <3>3 DEF L
      <4>2. QED
        BY <4>1 DEF L, R
    <3>4. CASE i # p /\ k # p
      <4>1. S[L[i]] = R[L[i]] /\ S[L[k]] = R[L[k]]
        BY <1>0, <2>1, <3>1, <3>4 DEF L
      <4>2. QED
        BY <2>2, <2>5, <4>1
    <3>5. QED
      BY <3>2, <3>3, <3>4
  <2>6. QED
    BY <1>0, <2>3, <2>4, <2>5 DEF Listed, L, S
<1>3. QED
  BY <1>1, <1>2

\* Nothing ranks above a settled row.
LEMMA RankTop ==
  ASSUME NEW s \in Terminal, NEW t \in NodeStatus, Rank(s) < Rank(t)
  PROVE  FALSE
<1>1. Rank(s) = 8
  BY DEF Rank, Terminal
<1>2. Rank(t) <= 8
  BY DEF Rank, NodeStatus, InFlight, Terminal
<1>3. Rank(t) \in Int
  BY DEF Rank, NodeStatus, InFlight, Terminal
<1>4. QED
  BY <1>1, <1>2, <1>3

\* A step of the runner within its host keeps LoopInv.
LEMMA MoveLoops ==
  ASSUME TypeInv, SweepInv, LoopInv, TypeInv', NEW r \in Runners, HostMove(r)
  PROVE  LoopInv'
<1> DEFINE j == JobOf(r)
           L == ListOf(j)
           h == Host(r)
           p == Len(L) - Len(runner[r].todo)
<1>0. runner[r].pc \in AtAHost
  BY DEF HostMove, AtAHost
<1>1. /\ j \in Jobs /\ h \in Nodes /\ runner[r] \in RunnerType /\ Live(r)
      /\ Follows(runner[r], L, rows[j]) /\ jobs[j] = "running"
      /\ Fits(runner[r].pc, runner[r].bad, runner[r].raised, rows[j][h])
      /\ rows[j][h] \in NodeStatus
  BY <1>0, AtHostFacts DEF SweepInv
<1>2. /\ L \in Seq(Nodes) /\ Len(L) \in Nat /\ L' = L
      /\ \A i \in 1..Len(L) : L[i] \in Nodes
      /\ \A i, k \in 1..Len(L) : L[i] = L[k] => i = k
      /\ runner[r].todo \in Seq(Nodes) /\ Len(runner[r].todo) \in Nat
  BY <1>1, ListFacts DEF RunnerType, HostMove, ListOf
<1>3. /\ p \in 1..Len(L) /\ h = L[p]
      /\ \A i \in 1..(p - 1) : rows[j][L[i]] \in Terminal
      /\ \A i \in 1..Len(runner[r].todo) :
           runner[r].todo[i] = L[p + i] /\ runner[r].snap[runner[r].todo[i]] = rows[j][runner[r].todo[i]]
  <2>1. Follows(runner[r], L, rows[j])
    BY <1>1
  <2>2. p >= 1 /\ h = L[p] /\ p <= Len(L)
    BY <1>0, <1>2, <2>1 DEF Follows, Host
  <2>3. \A i \in 1..(p - 1) : i \in 1..p /\ i < p
    BY <1>2, <2>2
  <2>4. \A i \in 1..p : i < p => rows[j][L[i]] \in Terminal
    BY <2>1 DEF Follows
  <2>5. QED
    <3>1. p \in 1..Len(L)
      BY <1>2, <2>2
    <3>2. \A i \in 1..(p - 1) : rows[j][L[i]] \in Terminal
      BY <2>3, <2>4
    <3>3. \A i \in 1..Len(runner[r].todo) :
            runner[r].todo[i] = L[p + i] /\ runner[r].snap[runner[r].todo[i]] = rows[j][runner[r].todo[i]]
      BY <2>1 DEF Follows
    <3>4. QED
      BY <2>2, <3>1, <3>2, <3>3
<1>4. /\ rows'[j][h] \notin {"absent", "queued"}
      /\ rows[j][h] \notin Terminal \/ rows'[j][h] \in Terminal
      /\ RowOnly(j, h)
  <2>1. Fits(runner'[r].pc, runner'[r].bad, runner'[r].raised, rows'[j][h]) /\ Forward(j, h)
        /\ RowOnly(j, h) /\ runner'[r].pc \in AtAHost
    BY DEF HostMove
  <2>2. rows'[j][h] \notin {"absent", "queued"}
    BY <2>1 DEF Fits, AtAHost, HostPhases, Phases, Terminal
  <2>3. rows'[j][h] \in NodeStatus
    BY <1>1 DEF TypeInv, TypeOK
  <2>4. QED
    BY <1>1, <2>1, <2>2, <2>3, RankTop DEF Forward
<1>5. \A i \in Jobs : Listed(i)'
  <2>1. jobs' = [jobs EXCEPT ![j] = "running"] /\ UNCHANGED opts
    BY <1>1 DEF HostMove, TypeInv, TypeOK
  <2>2. QED
    BY <1>1, <1>2, <1>3, <1>4, <2>1, ListedStep
<1>6. Follows(runner'[r], L, rows'[j])
  <2> DEFINE x == runner[r]
             y == runner'[r]
  <2>1. /\ y.todo = x.todo /\ y.snap = x.snap /\ y.host = x.host /\ y.pc \in AtAHost
        /\ Fits(y.pc, y.bad, y.raised, rows'[j][h]) /\ y.host = h
    BY DEF HostMove, Host
  <2>2. \A i \in 1..Len(L) : i # p => rows'[j][L[i]] = rows[j][L[i]]
    BY <1>1, <1>2, <1>3, <1>4 DEF RowOnly
  <2>3. \A i \in 1..Len(x.todo) : p + i \in 1..Len(L) /\ p + i # p
    BY <1>2, <1>3
  <2>4. \A i \in 1..Len(x.todo) :
          x.todo[i] = L[p + i] /\ x.snap[x.todo[i]] = rows'[j][x.todo[i]]
    <3> SUFFICES ASSUME NEW i \in 1..Len(x.todo)
                 PROVE  x.todo[i] = L[p + i] /\ x.snap[x.todo[i]] = rows'[j][x.todo[i]]
      OBVIOUS
    <3>1. x.todo[i] = L[p + i] /\ x.snap[x.todo[i]] = rows[j][x.todo[i]]
      BY <1>3
    <3>2. rows'[j][L[p + i]] = rows[j][L[p + i]]
      BY <2>2, <2>3
    <3>3. QED
      BY <3>1, <3>2
  <2>5. \A i \in 1..p : i < p => rows'[j][L[i]] \in Terminal
    <3> SUFFICES ASSUME NEW i \in 1..p, i < p
                 PROVE  rows'[j][L[i]] \in Terminal
      OBVIOUS
    <3>1. i \in 1..(p - 1) /\ i \in 1..Len(L) /\ i # p
      BY <1>2, <1>3
    <3>2. QED
      BY <1>3, <2>2, <3>1
  <2>6. y.pc \notin {"read", "marked", "loop", "finish"}
    BY <2>1 DEF AtAHost, HostPhases, Phases
  <2>7. Len(L) - Len(y.todo) = p /\ p >= 1
    BY <1>2, <1>3, <2>1
  <2> HIDE DEF x, j, L, h, p
  <2>8. y.host = L[p] /\ Fits(y.pc, y.bad, y.raised, rows'[j][y.host]) /\ p >= 0
    BY <1>3, <2>1, <2>7
  <2>9. /\ \A i \in 1..Len(y.todo) :
              y.todo[i] = L[p + i] /\ y.snap[y.todo[i]] = rows'[j][y.todo[i]]
        /\ \A i \in 1..p : i < p \/ y.pc \notin AtAHost => rows'[j][L[i]] \in Terminal
    BY <2>1, <2>4, <2>5
  <2>10. QED
    BY <2>6, <2>7, <2>8, <2>9 DEF Follows
<1>7. Loops(r)'
  <2>1. runner'[r].pc \notin {"read", "finish"}
    BY DEF HostMove, AtAHost, HostPhases, Phases
  <2>2. ListOf(JobOf(r))' = L /\ JobOf(r)' = j
    BY <1>2 DEF JobOf
  <2>3. QED
    BY <1>1, <1>6, <2>1, <2>2 DEF Loops, At, HostMove
<1>8. Asked'
  BY DEF LoopInv, Asked, HostMove
<1>9. QED
  BY <1>1, <1>5, <1>7, <1>8, OneLoops, AloneWhenLive DEF HostMove

\* What is left of a list once its head is taken.
LEMMA RestOfList ==
  ASSUME NEW S, NEW todo \in Seq(S), todo # <<>>
  PROVE  /\ Len(todo) \in Nat /\ Len(todo) >= 1 /\ 1 \in 1..Len(todo)
         /\ Head(todo) = todo[1] /\ Head(todo) \in S
         /\ Len(Tail(todo)) = Len(todo) - 1
         /\ \A i \in 1..Len(Tail(todo)) : i + 1 \in 1..Len(todo) /\ Tail(todo)[i] = todo[i + 1]
<1>1. Len(todo) \in Nat /\ Len(todo) >= 1
  OBVIOUS
<1>2. Head(todo) = todo[1] /\ Head(todo) \in S /\ Len(Tail(todo)) = Len(todo) - 1
  OBVIOUS
<1>3. \A i \in 1..Len(Tail(todo)) : Tail(todo)[i] = todo[i + 1]
  OBVIOUS
<1>4. QED
  BY <1>1, <1>2, <1>3

\* The place of the next host, in a list of m hosts of which k are left.
LEMMA NextPlace ==
  ASSUME NEW m \in Nat, NEW k \in Nat, k >= 1, m - k >= 0
  PROVE  /\ m - k \in Nat /\ (m - k) + 1 \in 1..m /\ m - (k - 1) = (m - k) + 1
         /\ \A i \in 1..(m - k) : i \in 1..m /\ i # (m - k) + 1
         /\ \A i \in 1..(k - 1) : /\ (m - k) + (i + 1) = ((m - k) + 1) + i
                                /\ (m - k) + (i + 1) \in 1..m
                                /\ (m - k) + (i + 1) # (m - k) + 1
OBVIOUS

\* The host a runner in its loop comes to: its place in the list, the hosts before
\* it, and those after it.
LEMMA NextHost ==
  ASSUME TypeInv, SweepInv, LoopInv, NEW r \in Runners, At(r, "loop"), runner[r].todo # <<>>
  PROVE  LET j == JobOf(r)
             L == ListOf(j)
             todo == runner[r].todo
             h == Head(todo)
             p == Len(L) - Len(todo)
         IN  /\ j \in Jobs /\ jobs[j] = "running" /\ h \in Nodes /\ Live(r)
             /\ todo \in Seq(Nodes) /\ Follows(runner[r], L, rows[j])
             /\ p \in Nat /\ p + 1 \in 1..Len(L) /\ h = L[p + 1]
             /\ \A i \in 1..p : rows[j][L[i]] \in Terminal
             /\ runner[r].snap[h] = rows[j][h] /\ rows[j][h] \in NodeStatus \ {"absent"}
<1> DEFINE j == JobOf(r)
           L == ListOf(j)
           todo == runner[r].todo
           h == Head(todo)
           p == Len(L) - Len(todo)
<1>1. /\ j \in Jobs /\ jobs[j] = "running" /\ Live(r) /\ Follows(runner[r], L, rows[j])
      /\ todo \in Seq(Nodes) /\ runner[r].pc = "loop"
  BY RunnersAreJobs DEF At, SweepInv, LoopInv, Loops, Sweeping, Live, Phases, TypeInv, TypeOK,
                        RunnerType
<1>2. /\ L \in Seq(Nodes) /\ Len(L) \in Nat /\ DOMAIN L = 1..Len(L)
      /\ \A i \in 1..Len(L) : L[i] \in Nodes
  BY <1>1, ListFacts
<1>3. Len(todo) \in Nat /\ Len(todo) >= 1 /\ 1 \in 1..Len(todo) /\ h = todo[1] /\ h \in Nodes
  BY <1>1, RestOfList
<1>4. p >= 0
  BY <1>1 DEF Follows
<1>5. p \in Nat /\ p + 1 \in 1..Len(L)
  BY <1>2, <1>3, <1>4, NextPlace
<1>6. todo[1] = L[p + 1] /\ runner[r].snap[todo[1]] = rows[j][todo[1]]
  BY <1>1, <1>3 DEF Follows
<1>7. \A i \in 1..p : rows[j][L[i]] \in Terminal
  BY <1>1 DEF Follows, AtAHost, HostPhases, Phases
<1>8. rows[j][h] \in NodeStatus \ {"absent"}
  <2>1. \E i \in DOMAIN L : L[i] = h
    BY <1>2, <1>3, <1>5, <1>6
  <2>2. QED
    <3>1. Listed(j) /\ jobs[j] # "absent"
      BY <1>1 DEF LoopInv
    <3>2. rows[j][h] # "absent"
      BY <1>3, <2>1, <3>1 DEF Listed
    <3>3. QED
      BY <1>1, <1>3, <3>2 DEF TypeInv, TypeOK
<1>9. QED
  BY <1>1, <1>3, <1>5, <1>6, <1>7, <1>8

\* The runner goes on with the rest of its list: past a settled host, or at it.
LEMMA FollowsOn ==
  ASSUME TypeInv, SweepInv, LoopInv, NEW r \in Runners, At(r, "loop"), runner[r].todo # <<>>,
         NEW y, y.todo = Tail(runner[r].todo), y.snap = runner[r].snap, ~y.bad, ~y.raised,
         NEW R, \A n \in Nodes : n # Head(runner[r].todo) => R[n] = rows[JobOf(r)][n],
         \/ y.pc = "loop" /\ R[Head(runner[r].todo)] \in Terminal
         \/ /\ y.pc = "preflight" /\ y.host = Head(runner[r].todo)
            /\ R[Head(runner[r].todo)] = "preflight"
  PROVE  Follows(y, ListOf(JobOf(r)), R)
<1> DEFINE x == runner[r]
           j == JobOf(r)
           L == ListOf(j)
           h == Head(x.todo)
           m == Len(L)
           k == Len(x.todo)
           q == (m - k) + 1
<1>1. /\ j \in Jobs /\ jobs[j] = "running" /\ h \in Nodes /\ x.todo \in Seq(Nodes)
      /\ h = L[q] /\ Follows(x, L, rows[j])
      /\ \A i \in 1..(m - k) : rows[j][L[i]] \in Terminal
  BY NextHost
<1>2. /\ m \in Nat /\ \A i \in 1..m : L[i] \in Nodes
      /\ \A i, n \in 1..m : L[i] = L[n] => i = n
  BY <1>1, ListFacts
<1>3. /\ k \in Nat /\ k >= 1 /\ Len(y.todo) = k - 1
      /\ \A i \in 1..Len(y.todo) : i + 1 \in 1..k /\ y.todo[i] = x.todo[i + 1]
  BY <1>1, RestOfList
<1>4. m - k >= 0
  BY <1>1 DEF Follows
<1>5. /\ q \in 1..m /\ m - Len(y.todo) = q /\ m - k \in Nat
      /\ \A i \in 1..(m - k) : i \in 1..m /\ i # q
      /\ \A i \in 1..(k - 1) : /\ (m - k) + (i + 1) = q + i
                             /\ (m - k) + (i + 1) \in 1..m
                             /\ (m - k) + (i + 1) # q
  <2>1. m - (k - 1) = q /\ m - k \in Nat /\ q \in 1..m
    BY <1>2, <1>3, <1>4, NextPlace
  <2>2. m - Len(y.todo) = q
    BY <1>3, <2>1
  <2>3. /\ \A i \in 1..(m - k) : i \in 1..m /\ i # q
        /\ \A i \in 1..(k - 1) : /\ (m - k) + (i + 1) = q + i
                               /\ (m - k) + (i + 1) \in 1..m
                               /\ (m - k) + (i + 1) # q
    BY <1>2, <1>3, <1>4, NextPlace
  <2>4. QED
    BY <2>1, <2>2, <2>3
<1> HIDE DEF x, j, L, h, m, k, q
<1>6. \A i \in 1..m : i # q => R[L[i]] = rows[j][L[i]]
  <2> SUFFICES ASSUME NEW i \in 1..m, i # q
               PROVE  R[L[i]] = rows[j][L[i]]
    OBVIOUS
  <2>1. L[i] \in Nodes /\ L[i] # h
    BY <1>1, <1>2, <1>5
  <2>2. QED
    BY <2>1 DEF h, x, j
<1>7. \A i \in 1..Len(y.todo) : y.todo[i] = L[q + i] /\ y.snap[y.todo[i]] = R[y.todo[i]]
  <2> SUFFICES ASSUME NEW i \in 1..Len(y.todo)
               PROVE  y.todo[i] = L[q + i] /\ y.snap[y.todo[i]] = R[y.todo[i]]
    OBVIOUS
  <2>1. i + 1 \in 1..Len(x.todo) /\ y.todo[i] = x.todo[i + 1] /\ i \in 1..(k - 1)
    BY <1>3 DEF k
  <2>2. /\ x.todo[i + 1] = L[(m - k) + (i + 1)]
        /\ x.snap[x.todo[i + 1]] = rows[j][x.todo[i + 1]]
    BY <1>1, <2>1 DEF Follows, m, k
  <2>3. q + i \in 1..m /\ q + i # q /\ x.todo[i + 1] = L[q + i]
    BY <1>5, <2>1, <2>2
  <2>4. QED
    BY <1>6, <2>1, <2>2, <2>3 DEF x
<1>8. R[L[q]] \in Terminal \/ y.pc \in AtAHost
  BY <1>1 DEF h, x, AtAHost, HostPhases, Phases
<1>9. \A i \in 1..q : i < q \/ y.pc \notin AtAHost => R[L[i]] \in Terminal
  <2> SUFFICES ASSUME NEW i \in 1..q, i < q \/ y.pc \notin AtAHost
               PROVE  R[L[i]] \in Terminal
    OBVIOUS
  <2>1. i \in 1..(m - k) \/ i = q
    BY <1>2, <1>3, <1>5 DEF q
  <2>2. CASE i \in 1..(m - k)
    BY <1>1, <1>5, <1>6, <2>2
  <2>3. CASE i = q
    BY <1>5, <1>8, <2>3
  <2>4. QED
    BY <2>1, <2>2, <2>3
<1>10. y.pc \in AtAHost =>
         q >= 1 /\ y.host = L[q] /\ Fits(y.pc, y.bad, y.raised, R[y.host])
  BY <1>1, <1>5 DEF h, x, AtAHost, HostPhases, Phases, Fits
<1>11. Len(L) - Len(y.todo) = q /\ q >= 0
  BY <1>2, <1>5 DEF m
<1>12. Follows(y, L, R)
  BY <1>7, <1>9, <1>10, <1>11 DEF Follows
<1>13. QED
  BY <1>12 DEF L, j

\* A runner that ends leaves its job with a label, and the rows as they are.
LEMMA EndLoops ==
  ASSUME TypeInv, TypeInv', SweepInv, LoopInv, NEW r \in Runners, Live(r),
         runner' = [runner EXCEPT ![r] = IdleRunner],
         UNCHANGED <<rows, opts, starting>>,
         NEW s \in JobStatus \ {"absent"}, jobs' = [jobs EXCEPT ![JobOf(r)] = s],
         s = "pending" => jobs[JobOf(r)] = "pending"
  PROVE  LoopInv'
<1>1. /\ JobOf(r) \in Jobs /\ jobs[JobOf(r)] # "absent" /\ Others(r) /\ runner'[r] = IdleRunner
      /\ \A j \in Jobs \ {JobOf(r)} : jobs'[j] = jobs[j]
      /\ jobs'[JobOf(r)] = s
  BY RunnersAreJobs DEF LoopInv, Loops, Others, TypeInv, TypeOK
<1>2. \A j \in Jobs : Listed(j)'
  BY <1>1 DEF LoopInv, Listed, ListOf
<1>3. Asked'
  BY <1>1 DEF LoopInv, Asked, TypeInv, TypeOK
<1>4. Loops(r)'
  BY <1>1 DEF Loops, IdleRunner, Fresh, Live, At, Sweeping
<1>5. QED
  BY <1>1, <1>2, <1>3, <1>4, OneLoops, AloneWhenLive

\* What the loop does to the host it comes to, with a row that is not settled yet:
\* every other row of the cluster is out of its hands.
LEMMA TakesHost ==
  ASSUME TypeInv, SweepInv, LoopInv, NEW r \in Runners,
         FailInterrupted(r) \/ NoTarget(r) \/ BeginHost(r)
  PROVE  LET j == JobOf(r)
             h == Head(runner[r].todo)
             s == IF BeginHost(r) THEN "preflight" ELSE "failed"
         IN  /\ At(r, "loop") /\ runner[r].todo # <<>>
             /\ j \in Jobs /\ jobs[j] = "running" /\ h \in Nodes /\ Live(r)
             /\ RowOnly(j, h) /\ rows'[j][h] \in {"preflight", "failed"}
             /\ BeginHost(r) => rows'[j][h] = "preflight" /\ rows[j][h] \in {"queued", "preflight"}
             /\ ~BeginHost(r) => rows'[j][h] = "failed"
             /\ rows[j][h] \in NodeStatus \ (Terminal \cup {"absent"})
             /\ Others(r) /\ UNCHANGED <<jobs, opts, starting, aborts>>
<1> DEFINE j == JobOf(r)
           h == Head(runner[r].todo)
<1>0. \E d \in {"run", "fail"} : NextIs(r, d) /\ (BeginHost(r) => d = "run")
  <2>1. CASE BeginHost(r)
    BY <2>1 DEF BeginHost
  <2>2. CASE ~BeginHost(r)
    BY <2>2 DEF FailInterrupted, NoTarget
  <2>3. QED
    BY <2>1, <2>2
<1>1. At(r, "loop") /\ runner[r].todo # <<>> /\ Disposition(runner[r].snap[h]) \in {"run", "fail"}
  BY <1>0 DEF NextIs
<1>2. /\ j \in Jobs /\ jobs[j] = "running" /\ h \in Nodes /\ Live(r)
      /\ runner[r].snap[h] = rows[j][h] /\ rows[j][h] \in NodeStatus \ {"absent"}
  BY <1>1, NextHost
<1>3. rows[j][h] \in NodeStatus \ (Terminal \cup {"absent"})
  BY <1>1, <1>2 DEF Disposition
<1>4. BeginHost(r) => rows[j][h] \in {"queued", "preflight"}
  <2> SUFFICES ASSUME BeginHost(r)
               PROVE  rows[j][h] \in {"queued", "preflight"}
    OBVIOUS
  <2>1. Disposition(rows[j][h]) = "run"
    BY <1>2 DEF BeginHost, NextIs
  <2>2. QED
    BY <1>2, <2>1 DEF Disposition, NodeStatus
<1>5. Others(r) /\ UNCHANGED <<jobs, opts, starting, aborts>>
  BY DEF FailInterrupted, NoTarget, BeginHost, Others, memory, TypeInv, TypeOK
<1>6. /\ BeginHost(r) => rows' = [rows EXCEPT ![j][h] = "preflight"]
      /\ ~BeginHost(r) => rows' = [rows EXCEPT ![j][h] = "failed"]
  BY DEF FailInterrupted, NoTarget, BeginHost
<1>7. RowOnly(j, h)
  BY <1>2, <1>6, RowEffect
<1>8. /\ BeginHost(r) => rows'[j][h] = "preflight"
      /\ ~BeginHost(r) => rows'[j][h] = "failed"
  BY <1>2, <1>6, RowEffect
<1> HIDE DEF j, h
<1>9. rows'[j][h] \in {"preflight", "failed"}
  BY <1>8
<1>10. QED
  BY <1>1, <1>2, <1>3, <1>4, <1>5, <1>7, <1>8, <1>9 DEF j, h

LEMMA TakesLoops ==
  ASSUME TypeInv, TypeInv', SweepInv, LoopInv, NEW r \in Runners,
         FailInterrupted(r) \/ NoTarget(r) \/ BeginHost(r)
  PROVE  LoopInv'
<1> DEFINE j == JobOf(r)
           h == Head(runner[r].todo)
           L == ListOf(j)
           p == Len(L) - Len(runner[r].todo)
           y == runner'[r]
<1>1. /\ At(r, "loop") /\ runner[r].todo # <<>>
      /\ j \in Jobs /\ jobs[j] = "running" /\ h \in Nodes /\ Live(r)
      /\ RowOnly(j, h) /\ rows'[j][h] \in {"preflight", "failed"}
      /\ BeginHost(r) => rows'[j][h] = "preflight"
      /\ ~BeginHost(r) => rows'[j][h] = "failed"
      /\ rows[j][h] \in NodeStatus \ (Terminal \cup {"absent"})
      /\ Others(r) /\ UNCHANGED <<jobs, opts, starting, aborts>>
  BY TakesHost
<1>2. /\ p + 1 \in 1..Len(L) /\ h = L[p + 1] /\ p \in Nat
      /\ \A i \in 1..p : rows[j][L[i]] \in Terminal
      /\ Follows(runner[r], L, rows[j]) /\ runner[r].todo \in Seq(Nodes)
  BY <1>1, NextHost
<1>3. \A i \in Jobs : Listed(i)'
  <2>1. jobs' = [jobs EXCEPT ![j] = "running"]
    BY <1>1 DEF TypeInv, TypeOK
  <2>2. (p + 1) - 1 = p
    BY <1>2
  <2> HIDE DEF j, h, L, p
  <2>3. QED
    BY <1>1, <1>2, <2>1, <2>2, ListedStep DEF L
<1>4. /\ y.todo = Tail(runner[r].todo) /\ y.snap = runner[r].snap
      /\ y.bad = runner[r].bad /\ y.raised = runner[r].raised
      /\ \/ y.pc = "loop" /\ rows'[j][h] \in Terminal
         \/ y.pc = "preflight" /\ y.host = h /\ rows'[j][h] = "preflight"
  <2>1. runner[r] \in RunnerType /\ runner[r].pc = "loop"
    BY <1>1 DEF TypeInv, TypeOK, At
  <2>2. CASE BeginHost(r)
    <3>1. PICK t : runner' = [runner EXCEPT ![r].pc = "preflight", ![r].todo = Tail(@),
                                            ![r].host = h, ![r].targets = t]
      BY <2>2 DEF BeginHost
    <3>2. QED
      BY <1>1, <2>1, <2>2, <3>1 DEF TypeInv, TypeOK, RunnerType
  <2>3. CASE ~BeginHost(r)
    <3>1. runner' = [runner EXCEPT ![r].todo = Tail(@)]
      BY <2>3 DEF FailInterrupted, NoTarget
    <3>2. QED
      BY <1>1, <2>1, <2>3, <3>1 DEF TypeInv, TypeOK, RunnerType, Terminal
  <2>4. QED
    BY <2>2, <2>3
<1>5. ~y.bad /\ ~y.raised
  BY <1>1, <1>2, <1>4 DEF Follows, At
<1>6. Follows(y, L, rows'[j])
  <2>1. \A n \in Nodes : n # h => rows'[j][n] = rows[j][n]
    BY <1>1 DEF RowOnly
  <2>2. QED
    BY <1>1, <1>4, <1>5, <2>1, FollowsOn
<1>7. Loops(r)'
  <2>1. JobOf(r)' = j /\ ListOf(JobOf(r))' = L /\ y.pc \in {"loop", "preflight"}
    BY <1>1, <1>4 DEF JobOf, ListOf
  <2>2. QED
    BY <1>1, <1>6, <2>1 DEF Loops, At
<1>8. Asked'
  BY <1>1 DEF LoopInv, Asked
<1>9. QED
  BY <1>1, <1>3, <1>7, <1>8, OneLoops, AloneWhenLive

\* A step of the runner outside its hosts that leaves the rows alone.
LEMMA StaysLoops ==
  ASSUME TypeInv, SweepInv, LoopInv, NEW r \in Runners, Live(r), Others(r),
         UNCHANGED <<jobs, rows, opts, starting, aborts>>, Loops(r)'
  PROVE  LoopInv'
<1>1. \A i \in Jobs : Listed(i)'
  BY ListedStays
<1>2. Asked'
  BY DEF LoopInv, Asked
<1>3. QED
  BY <1>1, <1>2, OneLoops, AloneWhenLive

LEMMA ReadLoops ==
  ASSUME TypeInv, TypeInv', SweepInv, LoopInv, NEW r \in Runners, ReadJob(r)
  PROVE  LoopInv'
<1> DEFINE j == JobOf(r)
           L == ListOf(j)
<1>0. /\ j \in Jobs /\ At(r, "spawned") /\ Live(r) /\ Others(r) /\ jobs[j] # "absent"
      /\ UNCHANGED <<jobs, rows, opts, starting, aborts>>
  BY RunnersAreJobs DEF ReadJob, At, Live, Others, LoopInv, Loops, db, memory, TypeInv, TypeOK
<1>1. CASE jobs[j] \in {"pending", "running"}
  <2>1. runner'[r] = Fresh("read", rows[j], L, FALSE)
    BY <1>1 DEF ReadJob, Opt, ListOf, TypeInv, TypeOK
  <2>2. /\ L \in Seq(Nodes) /\ Len(L) \in Nat /\ Len(L) - Len(L) = 0
    BY <1>0, ListFacts
  <2>3. Follows(runner'[r], L, rows'[j])
    <3>1. /\ runner'[r].todo = L /\ runner'[r].snap = rows[j] /\ runner'[r].pc = "read"
          /\ ~runner'[r].bad /\ ~runner'[r].raised
      BY <2>1 DEF Fresh
    <3>2. \A i \in 1..Len(L) : 0 + i = i
      BY <2>2
    <3> HIDE DEF L, j
    <3>3. QED
      BY <1>0, <2>2, <3>1, <3>2 DEF Follows, AtAHost, HostPhases, Phases
  <2>4. Loops(r)'
    <3>1. runner'[r].pc = "read" /\ JobOf(r)' = j /\ ListOf(JobOf(r))' = L
      BY <1>0, <2>1 DEF Fresh, JobOf, ListOf
    <3>2. QED
      BY <1>0, <1>1, <2>3, <3>1 DEF Loops, At
  <2>5. QED
    BY <1>0, <2>4, StaysLoops
<1>2. CASE jobs[j] \notin {"pending", "running"}
  <2>1. runner'[r] = IdleRunner
    BY <1>2 DEF ReadJob, TypeInv, TypeOK
  <2>2. Loops(r)'
    BY <2>1 DEF Loops, IdleRunner, Fresh, Live, At, Sweeping
  <2>3. QED
    BY <1>0, <2>2, StaysLoops
<1>3. QED
  BY <1>1, <1>2

LEMMA MarkLoops ==
  ASSUME TypeInv, TypeInv', SweepInv, LoopInv, NEW r \in Runners, MarkRunning(r)
  PROVE  LoopInv'
<1> DEFINE j == JobOf(r)
<1>0. /\ j \in Jobs /\ At(r, "read") /\ Live(r) /\ Others(r)
      /\ UNCHANGED <<rows, opts, starting, aborts>> /\ jobs' = [jobs EXCEPT ![j] = "running"]
      /\ jobs[j] \in {"pending", "running"} /\ Follows(runner[r], ListOf(j), rows[j])
      /\ runner' = [runner EXCEPT ![r].pc = "marked"]
  BY RunnersAreJobs DEF MarkRunning, At, Live, Others, LoopInv, Loops, memory, Goto, TypeInv, TypeOK
<1>1. /\ jobs'[j] = "running" /\ \A i \in Jobs \ {j} : jobs'[i] = jobs[i]
  BY <1>0 DEF TypeInv, TypeOK
<1>2. \A i \in Jobs : Listed(i)'
  BY <1>0, <1>1 DEF LoopInv, Listed, ListOf
<1>3. Asked'
  BY <1>0, <1>1 DEF LoopInv, Asked, TypeInv, TypeOK
<1>4. /\ runner'[r].pc = "marked" /\ runner'[r].todo = runner[r].todo
      /\ runner'[r].snap = runner[r].snap /\ runner'[r].bad = runner[r].bad
      /\ runner'[r].raised = runner[r].raised /\ runner[r].pc = "read"
  BY <1>0 DEF TypeInv, TypeOK, RunnerType, At
<1>5. Follows(runner'[r], ListOf(j), rows'[j])
  BY <1>0, <1>4 DEF Follows, AtAHost, HostPhases, Phases
<1>6. Loops(r)'
  <2>1. JobOf(r)' = j /\ ListOf(JobOf(r))' = ListOf(j)
    BY <1>0 DEF JobOf, ListOf
  <2>2. QED
    BY <1>1, <1>4, <1>5, <2>1 DEF Loops, At
<1>7. QED
  BY <1>0, <1>2, <1>3, <1>6, OneLoops, AloneWhenLive

\* Leaving the preamble or the loop, and the next host after a settled one.
LEMMA OnwardLoops ==
  ASSUME TypeInv, SweepInv, LoopInv, NEW r \in Runners,
         DetectCeph(r) \/ LeaveLoop(r) \/ SkipHost(r)
  PROVE  LoopInv'
<1> DEFINE j == JobOf(r)
           L == ListOf(j)
           x == runner[r]
           y == runner'[r]
<1>0. /\ x.pc \in {"marked", "loop"} /\ Live(r) /\ Others(r) /\ j \in Jobs /\ x \in RunnerType
      /\ UNCHANGED <<jobs, rows, opts, starting, aborts>> /\ JobOf(r)' = j /\ L' = L
      /\ Follows(x, L, rows[j]) /\ jobs[j] # "absent"
  BY RunnersAreJobs DEF DetectCeph, LeaveLoop, SkipHost, NextIs, At, Live, Others, LoopInv, Loops,
                        Sweeping, Phases, Goto, db, memory, TypeInv, TypeOK, JobOf, ListOf
<1>1. ASSUME y.pc \in {"loop", "finish"}, y.todo = x.todo, y.snap = x.snap, y.bad = x.bad,
             y.raised = x.raised, y.pc = "finish" => x.todo = <<>> \/ Aborted(r)
      PROVE  LoopInv'
  <2>1. Follows(y, L, rows'[j])
    BY <1>0, <1>1 DEF Follows, AtAHost, HostPhases, Phases
  <2>2. Aborted(r)' <=> Aborted(r)
    BY <1>0 DEF Aborted
  <2>3. Loops(r)'
    BY <1>0, <1>1, <2>1, <2>2 DEF Loops, At
  <2>4. QED
    BY <1>0, <2>3, StaysLoops
<1>2. CASE DetectCeph(r)
  <2>1. PICK gate : runner' = [runner EXCEPT ![r].pc = "loop", ![r].gate = gate]
    BY <1>2 DEF DetectCeph
  <2>2. /\ y.pc = "loop" /\ y.todo = x.todo /\ y.snap = x.snap /\ y.bad = x.bad
        /\ y.raised = x.raised
    BY <1>0, <2>1 DEF TypeInv, TypeOK, RunnerType
  <2>3. QED
    BY <1>1, <2>2
<1>3. CASE LeaveLoop(r)
  <2>1. /\ y.pc = "finish" /\ y.todo = x.todo /\ y.snap = x.snap /\ y.bad = x.bad
        /\ y.raised = x.raised /\ (x.todo = <<>> \/ Aborted(r))
    BY <1>0, <1>3 DEF LeaveLoop, Goto, TypeInv, TypeOK, RunnerType
  <2>2. QED
    BY <1>1, <2>1
<1>4. CASE SkipHost(r)
  <2>1. /\ At(r, "loop") /\ x.todo # <<>> /\ Disposition(x.snap[Head(x.todo)]) = "skip"
        /\ runner' = [runner EXCEPT ![r].todo = Tail(@)]
    BY <1>4 DEF SkipHost, NextIs
  <2>2. /\ y.todo = Tail(x.todo) /\ y.snap = x.snap /\ y.bad = x.bad /\ y.raised = x.raised
        /\ y.pc = "loop"
    BY <1>0, <2>1 DEF TypeInv, TypeOK, RunnerType, At
  <2>3. x.snap[Head(x.todo)] = rows[j][Head(x.todo)]
    BY <2>1, NextHost
  <2>4. rows[j][Head(x.todo)] \in Terminal
    BY <2>1, <2>3 DEF Disposition
  <2>5. ~y.bad /\ ~y.raised
    BY <1>0, <2>1, <2>2 DEF Follows, At
  <2>6. Follows(y, L, rows[j])
    BY <2>1, <2>2, <2>4, <2>5, FollowsOn
  <2>7. Loops(r)'
    BY <1>0, <2>2, <2>6 DEF Loops, At
  <2>8. QED
    BY <1>0, <2>7, StaysLoops
<1>5. QED
  BY <1>2, <1>3, <1>4

LEMMA CleanupLoops ==
  ASSUME TypeInv, TypeInv', SweepInv, LoopInv, NEW r \in Runners, Cleanup(r)
  PROVE  LoopInv'
<1> DEFINE j == JobOf(r)
           L == ListOf(j)
           x == runner[r]
           y == runner'[r]
<1>0. /\ x.pc = "cleanup" /\ Live(r) /\ j \in Jobs /\ x \in RunnerType
      /\ UNCHANGED <<rows, opts, starting, aborts>> /\ JobOf(r)' = j /\ L' = L
      /\ Follows(x, L, rows[j]) /\ jobs[j] # "absent"
  BY RunnersAreJobs DEF Cleanup, At, Live, LoopInv, Loops, Sweeping, Phases, memory,
                        TypeInv, TypeOK, JobOf, ListOf
<1>1. CASE x.raised
  BY <1>0, <1>1, EndLoops DEF Cleanup, JobStatus
<1>2. CASE ~x.raised
  <2>1. /\ y = Fresh("loop", x.snap, x.todo, x.gate) /\ UNCHANGED jobs /\ Others(r)
    BY <1>2 DEF Cleanup, TypeInv, TypeOK, Others
  <2>2. /\ y.pc = "loop" /\ y.todo = x.todo /\ y.snap = x.snap /\ ~y.bad /\ ~y.raised
    BY <2>1 DEF Fresh
  <2>3. Follows(y, L, rows'[j])
    <3>1. rows[j][x.host] \in Terminal /\ x.host = L[Len(L) - Len(x.todo)]
      BY <1>0, <1>2 DEF Follows, Fits, AtAHost
    <3>2. Len(L) \in Nat /\ Len(x.todo) \in Nat
      BY <1>0, ListFacts DEF RunnerType
    <3>3. \A i \in 1..(Len(L) - Len(x.todo)) : rows[j][L[i]] \in Terminal
      <4> SUFFICES ASSUME NEW i \in 1..(Len(L) - Len(x.todo))
                   PROVE  rows[j][L[i]] \in Terminal
        OBVIOUS
      <4>1. i < Len(L) - Len(x.todo) \/ i = Len(L) - Len(x.todo)
        BY <3>2
      <4>2. QED
        BY <1>0, <3>1, <4>1 DEF Follows
    <3> HIDE DEF x
    <3>4. QED
      BY <1>0, <2>2, <3>3 DEF Follows, AtAHost, HostPhases, Phases
  <2>4. Loops(r)'
    BY <1>0, <2>1, <2>2, <2>3 DEF Loops, At
  <2>5. QED
    BY <1>0, <2>1, <2>4, StaysLoops
<1>3. QED
  BY <1>1, <1>2

LEMMA SweepStepLoops ==
  ASSUME TypeInv, TypeInv', SweepInv, LoopInv, NEW r \in Runners, SweepStep(r)
  PROVE  LoopInv'
<1>1. CASE ClusterMissing(r) \/ FinishJob(r)
  <2>1. Live(r) /\ UNCHANGED <<rows, opts, starting>> /\ runner' = [runner EXCEPT ![r] = IdleRunner]
    BY <1>1 DEF ClusterMissing, FinishJob, At, Live, memory
  <2>2. \E s \in {"aborted", "failed", "done"} : jobs' = [jobs EXCEPT ![JobOf(r)] = s]
    BY <1>1, LabelTyped DEF ClusterMissing, FinishJob
  <2>3. QED
    BY <2>1, <2>2, EndLoops DEF JobStatus
<1>2. QED
  BY <1>1, ReadLoops, MarkLoops, OnwardLoops, TakesLoops, CleanupLoops DEF SweepStep

LEMMA RaiseLoops ==
  ASSUME TypeInv, TypeInv', SweepInv, LoopInv, NEW r \in Runners, Raise(r)
  PROVE  LoopInv'
<1>1. CASE runner[r].pc \in HostPhases
  BY <1>1, RaiseMoves, MoveLoops
<1>2. CASE runner[r].pc \notin HostPhases
  BY <1>2, EndLoops DEF Raise, Live, JobStatus, memory
<1>3. QED
  BY <1>1, <1>2

LEMMA SpawnLoops ==
  ASSUME TypeInv, TypeInv', SweepInv, LoopInv, NEW q \in Requests, NEW r \in Runners, StartSpawn(q, r)
  PROVE  LoopInv'
<1>1. /\ starting[q] = JobOf(r) /\ JobOf(r) \in Jobs /\ JobOf(r) # NoJob
      /\ UNCHANGED <<jobs, rows, opts, aborts>> /\ starting' = [starting EXCEPT ![q] = NoJob]
      /\ runner'[r] = SpawnedRunner /\ Others(r)
  BY RunnersAreJobs, ConstantsOK DEF StartSpawn, db, TypeInv, TypeOK, Others
<1>2. \A other \in Runners \ {r} : ~Live(other)
  BY <1>1 DEF SweepInv
<1>3. \A j \in Jobs : Listed(j)'
  BY <1>1, ListedStays
<1>4. Asked'
  BY <1>1 DEF LoopInv, Asked, TypeInv, TypeOK
<1>5. Loops(r)'
  <2>1. jobs[JobOf(r)] # "absent" /\ JobOf(r)' = JobOf(r)
    BY <1>1 DEF LoopInv, Asked, JobOf
  <2>2. QED
    BY <1>1, <2>1 DEF Loops, SpawnedRunner, Fresh, At, Sweeping
<1>6. QED
  BY <1>1, <1>2, <1>3, <1>4, <1>5, OneLoops

LEMMA RestartLoops ==
  ASSUME TypeInv, LoopInv, Restart
  PROVE  LoopInv'
<1>1. UNCHANGED <<jobs, rows, opts>> /\ \A q \in Requests : starting'[q] = NoJob
  BY DEF Restart, Respawn, db
<1>2. \A j \in Jobs : Listed(j)'
  BY <1>1, ListedStays
<1>3. ASSUME NEW r \in Runners
      PROVE  Loops(r)'
  <2>1. CASE runner'[r] = SpawnedRunner /\ jobs[JobOf(r)] = "running"
    BY <1>1, <2>1 DEF Loops, SpawnedRunner, Fresh, At, Sweeping, JobOf
  <2>2. CASE runner'[r] = IdleRunner
    BY <2>2 DEF Loops, IdleRunner, Fresh, Live, At, Sweeping
  <2>3. QED
    BY <2>1, <2>2 DEF Restart, Respawn, JobOf
<1>4. QED
  BY <1>1, <1>2, <1>3 DEF LoopInv, Asked

\* The handlers, and the cluster by itself, do not touch what LoopInv reads, but
\* for the new job of create_job.
LEMMA StillLoops ==
  ASSUME TypeInv, LoopInv, UNCHANGED <<jobs, rows, opts, runner>>, aborts \subseteq aborts', Asked'
  PROVE  LoopInv'
<1>1. \A j \in Jobs : Listed(j)'
  BY ListedStays
<1>2. \A r \in Runners : Loops(r)'
  BY DEF LoopInv, Loops, Live, At, Sweeping, ListOf, JobOf, Aborted
<1>3. QED
  BY <1>1, <1>2 DEF LoopInv

LEMMA CreateLoops ==
  ASSUME TypeInv, TypeInv', SweepInv, LoopInv, NEW j \in Jobs, NEW o \in JobOptions, CreateJob(j, o)
  PROVE  LoopInv'
<1>1. /\ jobs[j] = "absent" /\ jobs'[j] = "pending" /\ \A i \in Jobs \ {j} : jobs'[i] = jobs[i]
      /\ \A i \in Jobs \ {j} : opts'[i] = opts[i] /\ rows'[i] = rows[i]
      /\ UNCHANGED <<starting, aborts, runner>> /\ o \in OptionType
  BY ConstantsOK DEF CreateJob, memory, TypeInv, TypeOK
<1>2. /\ ListOf(j)' = o.hosts /\ o.hosts \in Seq(Nodes)
      /\ \A i, k \in DOMAIN o.hosts : o.hosts[i] = o.hosts[k] => i = k
      /\ \A n \in Nodes : rows'[j][n] = IF \E i \in DOMAIN o.hosts : o.hosts[i] = n
                                        THEN "queued" ELSE "absent"
  <2>1. opts'[j] = [o EXCEPT !.back = @ /\ o.mode # "in_place"]
    BY DEF CreateJob, TypeInv, TypeOK
  <2>2. opts'[j].hosts = o.hosts /\ o.hosts \in Seq(Nodes)
    BY <1>1, <2>1 DEF OptionType
  <2>3. QED
    BY <2>2 DEF CreateJob, TypeInv, TypeOK, ListOf
<1>3. \A i \in DOMAIN o.hosts : o.hosts[i] \in Nodes /\ rows'[j][o.hosts[i]] = "queued"
  BY <1>2
<1>4. Listed(j)'
  BY <1>1, <1>2, <1>3 DEF Listed
<1>5. ASSUME NEW i \in Jobs \ {j}
      PROVE  Listed(i)'
  BY <1>1, <1>5 DEF LoopInv, Listed, ListOf
<1>6. Asked'
  BY <1>1 DEF LoopInv, Asked, TypeInv, TypeOK
<1>7. ASSUME NEW r \in Runners
      PROVE  Loops(r)'
  <2>1. CASE JobOf(r) = j
    BY <1>1, <2>1 DEF LoopInv, Loops, Live, At, Sweeping, JobOf
  <2>2. CASE JobOf(r) # j
    <3>1. JobOf(r) \in Jobs \ {j} /\ JobOf(r)' = JobOf(r)
      BY <2>2, RunnersAreJobs DEF JobOf
    <3>2. Loops(r)
      BY DEF LoopInv
    <3>3. /\ jobs'[JobOf(r)] = jobs[JobOf(r)] /\ rows'[JobOf(r)] = rows[JobOf(r)]
          /\ ListOf(JobOf(r))' = ListOf(JobOf(r))
      BY <1>1, <3>1 DEF ListOf
    <3>4. QED
      BY <1>1, <3>1, <3>2, <3>3 DEF Loops, Live, At, Sweeping, Aborted
  <2>3. QED
    BY <2>1, <2>2
<1>8. QED
  BY <1>4, <1>5, <1>6, <1>7 DEF LoopInv

LEMMA LoopInit == Init => LoopInv
<1> SUFFICES ASSUME Init
             PROVE  LoopInv
  OBVIOUS
<1>1. \A r \in Runners : runner[r].pc = "idle"
  BY DEF Init, IdleRunner, Fresh
<1>2. \A r \in Runners : Loops(r)
  BY <1>1 DEF Loops, Live, At, Sweeping
<1>3. \A j \in Jobs : Listed(j)
  BY DEF Init, Listed, NoRows
<1>4. QED
  BY <1>2, <1>3 DEF LoopInv, Asked, Init

LEMMA LoopNext ==
  TypeInv /\ TypeInv' /\ SweepInv /\ LoopInv /\ [Next]_vars => LoopInv'
<1> SUFFICES ASSUME TypeInv, TypeInv', SweepInv, LoopInv, [Next]_vars
             PROVE  LoopInv'
  OBVIOUS
<1>1. ASSUME UNCHANGED <<jobs, rows, opts, runner, aborts, starting>>
      PROVE  LoopInv'
  <2>1. Asked'
    BY <1>1 DEF LoopInv, Asked
  <2>2. QED
    BY <1>1, <2>1, StillLoops
<1>2. CASE UNCHANGED vars \/ Environment
  <2>1. UNCHANGED <<jobs, rows, opts, runner, aborts, starting>>
    BY <1>2 DEF vars, Environment, Poll, CephHeals, NodeGoesDown, NodeComesUp, HaMoves, LateTask,
                db, memory
  <2>2. QED
    BY <1>1, <2>1
<1>3. CASE Admin
  <2>1. ASSUME NEW j \in Jobs, NEW o \in JobOptions, CreateJob(j, o)
        PROVE  LoopInv'
    BY <2>1, CreateLoops
  <2>2. ASSUME NEW q \in Requests, NEW j \in Jobs, StartCheck(q, j)
        PROVE  LoopInv'
    <3>1. /\ UNCHANGED <<jobs, rows, opts, runner, aborts>> /\ jobs[j] = "pending"
          /\ starting' = [starting EXCEPT ![q] = j]
      BY <2>2 DEF StartCheck, db
    <3>2. Asked'
      BY <3>1 DEF LoopInv, Asked, TypeInv, TypeOK
    <3>3. QED
      BY <3>1, <3>2, StillLoops
  <2>3. ASSUME NEW j \in Jobs, AbortJob(j)
        PROVE  LoopInv'
    <3>1. /\ UNCHANGED <<jobs, rows, opts, runner, starting>> /\ aborts \subseteq aborts'
      BY <2>3 DEF AbortJob, db
    <3>2. Asked'
      BY <3>1 DEF LoopInv, Asked
    <3>3. QED
      BY <3>1, <3>2, StillLoops
  <2>4. ASSUME NEW j \in Jobs, NEW n \in Nodes, NEW c \in {"reboot", "skip"}, ConfirmReboot(j, n, c)
        PROVE  LoopInv'
    BY <1>1, <2>4 DEF ConfirmReboot, db
  <2>5. QED
    BY <1>3, <2>1, <2>2, <2>3, <2>4 DEF Admin
<1>4. ASSUME NEW r \in Runners, RunnerStep(r) \/ Raise(r)
      PROVE  LoopInv'
  BY <1>4, SweepStepLoops, HostStepMoves, GuestStepMoves, MoveLoops, RaiseLoops DEF RunnerStep
<1>5. QED
  BY <1>2, <1>3, <1>4, SpawnLoops, RestartLoops DEF Next

-----------------------------------------------------------------------------
(* Rows go forward.                                                        *)

\* What a step does to jobs and rows.  create_job adds a job of queued hosts;
Created(j) ==
  /\ jobs[j] = "absent" /\ jobs'[j] = "pending"
  /\ \A i \in Jobs \ {j} : jobs'[i] = jobs[i] /\ rows'[i] = rows[i]
  /\ \A n \in Nodes : rows[j][n] = "absent" /\ rows'[j][n] \in {"absent", "queued"}

\* a runner marks its job, or ends it and gives it a label;
Labelled(j) ==
  /\ UNCHANGED rows /\ \A i \in Jobs \ {j} : jobs'[i] = jobs[i]
  /\ \/ jobs[j] \in {"pending", "running"} /\ jobs'[j] = "running"
     \/ jobs'[j] = "aborted"
     \/ \E r \in Runners : JobOf(r) = j /\ FinishJob(r)

\* and a runner brings a host of its running job forward, a queued one only where
\* no other is being worked on.
Worked(j, n) ==
  /\ jobs[j] = "running" /\ UNCHANGED jobs /\ RowOnly(j, n) /\ Forward(j, n)
  /\ rows[j][n] # "absent" /\ rows'[j][n] \notin {"absent", "queued"}
  /\ rows[j][n] = "queued" =>
       \/ rows'[j][n] \in Terminal
       \/ \A i \in Jobs, m \in Nodes : i # j \/ m # n => PhaseOf(i, m) # "working"

LEMMA WorkedWithin ==
  ASSUME TypeInv, SweepInv, LoopInv, NEW r \in Runners, HostMove(r)
  PROVE  JobOf(r) \in Jobs /\ Host(r) \in Nodes /\ Worked(JobOf(r), Host(r))
<1>1. runner[r].pc \in AtAHost /\ runner'[r].pc \in AtAHost
  BY DEF HostMove, AtAHost
<1>2. /\ JobOf(r) \in Jobs /\ Host(r) \in Nodes /\ jobs[JobOf(r)] = "running"
      /\ Fits(runner[r].pc, runner[r].bad, runner[r].raised, rows[JobOf(r)][Host(r)])
  BY <1>1, AtHostFacts DEF SweepInv
<1>3. Fits(runner'[r].pc, runner'[r].bad, runner'[r].raised, rows'[JobOf(r)][Host(r)])
  BY DEF HostMove
<1>4. \A pc \in AtAHost : \A s, b, e : Fits(pc, b, e, s) => s \notin {"absent", "queued"}
  BY DEF Fits, AtAHost, HostPhases, Phases, Terminal
<1>5. QED
  BY <1>1, <1>2, <1>3, <1>4 DEF HostMove, Worked

\* While a runner comes to its next host, no other is being worked on.
LEMMA NoneWorking ==
  ASSUME TypeInv, SweepInv, LoopInv, NEW r \in Runners, At(r, "loop"), runner[r].todo # <<>>,
         rows[JobOf(r)][Head(runner[r].todo)] \notin Terminal,
         NEW i \in Jobs, NEW m \in Nodes, i # JobOf(r) \/ m # Head(runner[r].todo)
  PROVE  PhaseOf(i, m) # "working"
<1> DEFINE j == JobOf(r)
           L == ListOf(j)
           h == Head(runner[r].todo)
           p == Len(L) - Len(runner[r].todo)
<1>1. /\ j \in Jobs /\ jobs[j] = "running" /\ h \in Nodes /\ Live(r)
      /\ p \in Nat /\ p + 1 \in 1..Len(L) /\ h = L[p + 1]
      /\ \A k \in 1..p : rows[j][L[k]] \in Terminal
  BY NextHost
<1>2. CASE i # j
  <2>1. jobs[i] # "running"
    BY <1>1, <1>2 DEF SweepInv
  <2>2. jobs[i] \in JobStatus /\ Listed(i)
    BY DEF TypeInv, TypeOK, LoopInv
  <2>3. /\ jobs[i] = "absent" => rows[i][m] = "absent"
        /\ jobs[i] = "pending" => rows[i][m] \in {"absent", "queued"}
    BY <2>2 DEF Listed
  <2>4. QED
    BY <2>1, <2>2, <2>3 DEF PhaseOf, JobStatus
<1>3. CASE i = j
  <2>1. /\ DOMAIN L = 1..Len(L) /\ Len(L) \in Nat
    BY <1>1, ListFacts
  <2>2. /\ rows[j][m] # "absent" => \E k \in DOMAIN L : L[k] = m
        /\ \A k, l \in DOMAIN L : k < l => rows[j][L[k]] \in Terminal \/ rows[j][L[l]] = "queued"
    BY <1>1 DEF LoopInv, Listed
  <2>3. ASSUME NEW k \in 1..Len(L), L[k] = m
        PROVE  rows[j][m] \in Terminal \/ rows[j][m] = "queued"
    <3>1. CASE k <= p
      <4>1. k \in 1..p
        BY <1>1, <2>1, <3>1
      <4>2. QED
        BY <1>1, <2>3, <4>1
    <3>2. CASE k > p + 1
      <4>1. rows[j][L[p + 1]] \in Terminal \/ rows[j][L[k]] = "queued"
        BY <1>1, <2>1, <2>2, <3>2
      <4>2. QED
        BY <1>1, <2>3, <4>1
    <3>3. k <= p \/ k > p + 1 \/ k = p + 1
      <4>1. k \in Int /\ p \in Int
        BY <1>1, <2>1
      <4> HIDE DEF p
      <4>2. QED
        BY <4>1
    <3>4. k # p + 1
      BY <1>1, <1>3, <2>3
    <3>5. QED
      BY <3>1, <3>2, <3>3, <3>4
  <2>4. QED
    BY <1>1, <1>3, <2>1, <2>2, <2>3 DEF PhaseOf
<1>4. QED
  BY <1>2, <1>3

LEMMA WorkedNext ==
  ASSUME TypeInv, SweepInv, LoopInv, NEW r \in Runners,
         FailInterrupted(r) \/ NoTarget(r) \/ BeginHost(r)
  PROVE  /\ JobOf(r) \in Jobs /\ Head(runner[r].todo) \in Nodes
         /\ Worked(JobOf(r), Head(runner[r].todo))
<1> DEFINE j == JobOf(r)
           h == Head(runner[r].todo)
<1>1. /\ At(r, "loop") /\ runner[r].todo # <<>>
      /\ j \in Jobs /\ jobs[j] = "running" /\ h \in Nodes
      /\ RowOnly(j, h) /\ rows'[j][h] \in {"preflight", "failed"}
      /\ BeginHost(r) => rows'[j][h] = "preflight" /\ rows[j][h] \in {"queued", "preflight"}
      /\ ~BeginHost(r) => rows'[j][h] = "failed"
      /\ rows[j][h] \in NodeStatus \ (Terminal \cup {"absent"})
      /\ UNCHANGED jobs
  BY TakesHost
<1>2. Forward(j, h)
  <2>1. CASE BeginHost(r)
    <3>1. Rank("queued") < Rank("preflight")
      BY DEF Rank, Terminal
    <3>2. QED
      BY <1>1, <2>1, <3>1 DEF Forward
  <2>2. CASE ~BeginHost(r)
    BY <1>1, <2>2, RankOfFailed DEF Forward
  <2>3. QED
    BY <2>1, <2>2
<1>3. \A i \in Jobs, m \in Nodes : i # j \/ m # h => PhaseOf(i, m) # "working"
  BY <1>1, NoneWorking
<1>4. Worked(j, h)
  BY <1>1, <1>2, <1>3 DEF Worked
<1>5. QED
  BY <1>1, <1>4

\* Every step of the system is one of these.
LEMMA RowSteps ==
  ASSUME TypeInv, SweepInv, LoopInv, [Next]_vars
  PROVE  \/ UNCHANGED <<jobs, rows>>
         \/ \E j \in Jobs : Created(j) \/ Labelled(j)
         \/ \E j \in Jobs, n \in Nodes : Worked(j, n)
<1>1. CASE UNCHANGED vars \/ Environment \/ Restart
  BY <1>1 DEF vars, Environment, Poll, CephHeals, NodeGoesDown, NodeComesUp, HaMoves, LateTask,
              Restart, Respawn, db
<1>2. CASE Admin
  <2>1. ASSUME NEW j \in Jobs, NEW o \in JobOptions, CreateJob(j, o)
        PROVE  Created(j)
    BY <2>1 DEF CreateJob, Created, TypeInv, TypeOK, LoopInv, Listed
  <2>2. QED
    BY <1>2, <2>1 DEF Admin, StartCheck, AbortJob, ConfirmReboot, db
<1>3. ASSUME NEW r \in Runners, SweepStep(r)
      PROVE  \/ UNCHANGED <<jobs, rows>>
             \/ \E j \in Jobs : Labelled(j)
             \/ \E j \in Jobs, n \in Nodes : Worked(j, n)
  <2>0. JobOf(r) \in Jobs
    BY RunnersAreJobs
  <2>1. CASE ReadJob(r) \/ DetectCeph(r) \/ LeaveLoop(r) \/ SkipHost(r)
    BY <2>1 DEF ReadJob, DetectCeph, LeaveLoop, SkipHost, db
  <2>2. CASE MarkRunning(r)
    <3>1. jobs[JobOf(r)] \in {"pending", "running"}
      BY <2>2 DEF MarkRunning, LoopInv, Loops
    <3>2. QED
      BY <2>0, <2>2, <3>1 DEF MarkRunning, Labelled, TypeInv, TypeOK
  <2>3. CASE ClusterMissing(r) \/ FinishJob(r)
    BY <2>0, <2>3 DEF ClusterMissing, FinishJob, Labelled, TypeInv, TypeOK
  <2>4. CASE Cleanup(r)
    BY <2>0, <2>4 DEF Cleanup, Labelled, TypeInv, TypeOK
  <2>5. QED
    BY <1>3, <2>1, <2>2, <2>3, <2>4, WorkedNext DEF SweepStep
<1>4. ASSUME NEW r \in Runners, Raise(r)
      PROVE  UNCHANGED <<jobs, rows>> \/ \E j \in Jobs : Labelled(j)
  BY <1>4, RunnersAreJobs DEF Raise, db, Labelled, TypeInv, TypeOK
<1>5. ASSUME NEW q \in Requests, NEW r \in Runners, StartSpawn(q, r)
      PROVE  UNCHANGED <<jobs, rows>>
  BY <1>5 DEF StartSpawn, db
<1>6. QED
  BY <1>1, <1>2, <1>3, <1>4, <1>5, HostStepMoves, GuestStepMoves, WorkedWithin DEF Next, RunnerStep

\* The invariants, for the theorems that follow.
LEMMA LoopSpec ==
  ASSUME "race" \notin Faults
  PROVE  Spec => [](TypeInv /\ SweepInv /\ LoopInv)
<1>1. Init => TypeInv /\ SweepInv /\ LoopInv
  BY TypeInit, SweepInit, LoopInit
<1>2. TypeInv /\ SweepInv /\ LoopInv /\ [Next]_vars => (TypeInv /\ SweepInv /\ LoopInv)'
  BY TypeNext, SweepNext, LoopNext
<1>3. QED
  BY <1>1, <1>2, PTL DEF Spec

\* No row of a host ever goes back: the loop takes the hosts in the order of the
\* job's list, each once, and after a restart only those not begun or settled
\* before (_run_job's loop, _resume_disposition).
THEOREM RowsGoForward ==
  ASSUME "race" \notin Faults
  PROVE  Spec => RowsAdvance
<1>1. TypeInv /\ SweepInv /\ LoopInv /\ [Next]_vars =>
        [\A j \in Jobs, n \in Nodes :
           rows'[j][n] # rows[j][n] => Rank(rows[j][n]) < Rank(rows'[j][n])]_rows
  <2> SUFFICES ASSUME TypeInv, SweepInv, LoopInv, [Next]_vars, NEW j \in Jobs, NEW n \in Nodes,
                      rows'[j][n] # rows[j][n]
               PROVE  Rank(rows[j][n]) < Rank(rows'[j][n])
    OBVIOUS
  <2>1. ASSUME NEW i \in Jobs, Created(i)
        PROVE  Rank(rows[j][n]) < Rank(rows'[j][n])
    <3>1. rows[j][n] = "absent" /\ rows'[j][n] = "queued"
      BY <2>1 DEF Created
    <3>2. Rank("absent") < Rank("queued")
      BY DEF Rank, Terminal
    <3>3. QED
      BY <3>1, <3>2
  <2>2. ASSUME NEW i \in Jobs, NEW m \in Nodes, Worked(i, m)
        PROVE  Rank(rows[j][n]) < Rank(rows'[j][n])
    BY <2>2 DEF Worked, RowOnly, Forward
  <2>3. ASSUME NEW i \in Jobs, Labelled(i)
        PROVE  FALSE
    BY <2>3 DEF Labelled
  <2>4. QED
    BY <2>1, <2>2, <2>3, RowSteps
<1>2. QED
  BY <1>1, LoopSpec, PTL DEF Spec, RowsAdvance

-----------------------------------------------------------------------------
(* Labels are honest.                                                      *)

\* A runner that ends its job has settled every host of it, unless it was aborted.
LEMMA EndSettles ==
  ASSUME TypeInv, SweepInv, LoopInv, NEW r \in Runners, FinishJob(r), ~Aborted(r)
  PROVE  \A n \in Nodes : rows[JobOf(r)][n] \in Terminal \cup {"absent"}
<1> DEFINE j == JobOf(r)
           L == ListOf(j)
<1>1. /\ j \in Jobs /\ At(r, "finish") /\ Sweeping(r) /\ jobs[j] # "absent"
  BY RunnersAreJobs DEF FinishJob, At, Sweeping, Phases, LoopInv, Loops, Live
<1>2. runner[r].todo = <<>> /\ Follows(runner[r], L, rows[j])
  BY <1>1 DEF LoopInv, Loops
<1>3. DOMAIN L = 1..Len(L) /\ Len(L) \in Nat
  BY <1>1, ListFacts
<1>4. \A i \in 1..Len(L) : rows[j][L[i]] \in Terminal
  <2>1. Len(L) - Len(runner[r].todo) = Len(L)
    BY <1>2, <1>3
  <2>2. runner[r].pc \notin AtAHost
    BY <1>1 DEF At, AtAHost, HostPhases
  <2>3. QED
    BY <1>2, <2>1, <2>2 DEF Follows
<1>5. \A n \in Nodes : rows[j][n] # "absent" => \E i \in DOMAIN L : L[i] = n
  BY <1>1 DEF LoopInv, Listed
<1>6. QED
  BY <1>3, <1>4, <1>5

LEMMA LabelStep ==
  ASSUME TypeInv, SweepInv, LoopInv, LabelHonest, [Next]_vars
  PROVE  LabelHonest'
<1>0. USE DEF LabelHonest, RowsIn
<1>1. CASE UNCHANGED <<jobs, rows>>
  BY <1>1
<1>2. ASSUME NEW j \in Jobs, Created(j)
      PROVE  LabelHonest'
  BY <1>2 DEF Created
<1>3. ASSUME NEW j \in Jobs, Labelled(j)
      PROVE  LabelHonest'
  <2>1. ASSUME NEW r \in Runners, JobOf(r) = j, FinishJob(r)
        PROVE  /\ jobs'[j] \in {"done", "failed"} => RowsIn(j, Terminal \cup {"absent"}) = Nodes
               /\ jobs'[j] = "done" => RowsIn(j, {"failed"}) = {} \/ RowsIn(j, {"done"}) # {}
    <3>1. jobs'[j] = FinalLabel(j)
      BY <2>1 DEF FinishJob, TypeInv, TypeOK
    <3>2. rows[j] \in [Nodes -> NodeStatus]
      BY DEF TypeInv, TypeOK
    <3>3. CASE j \in aborts /\ RowsIn(j, NodeStatus \ (Terminal \cup {"absent"})) # {}
      BY <3>1, <3>3 DEF FinalLabel
    <3>4. CASE j \in aborts /\ RowsIn(j, NodeStatus \ (Terminal \cup {"absent"})) = {}
      BY <3>1, <3>2, <3>4 DEF FinalLabel
    <3>5. CASE j \notin aborts
      <4>1. \A n \in Nodes : rows[j][n] \in Terminal \cup {"absent"}
        BY <2>1, <3>5, EndSettles DEF Aborted
      <4>2. QED
        BY <3>1, <3>5, <4>1 DEF FinalLabel
    <3>6. QED
      BY <3>3, <3>4, <3>5
  <2>2. QED
    BY <1>3, <2>1 DEF Labelled
<1>4. ASSUME NEW j \in Jobs, NEW n \in Nodes, Worked(j, n)
      PROVE  LabelHonest'
  BY <1>4 DEF Worked, RowOnly
<1>5. QED
  BY <1>1, <1>2, <1>3, <1>4, RowSteps

\* A job called done or failed has settled every host of its list, and one called
\* done is not a sweep in which every host failed (the bookkeeping at the end of
\* _run_job), whatever aborts, exceptions and restarts came before.
THEOREM LabelsAreHonest ==
  ASSUME "race" \notin Faults
  PROVE  Spec => []LabelHonest
<1>1. Init => LabelHonest
  BY DEF Init, LabelHonest
<1>2. TypeInv /\ SweepInv /\ LoopInv /\ LabelHonest /\ [Next]_vars => LabelHonest'
  BY LabelStep
<1>3. QED
  BY <1>1, <1>2, LoopSpec, PTL DEF Spec

-----------------------------------------------------------------------------
(* One host at a time: the refinement of RollingSweep.                     *)

\* The phase function of RollingSweep, as the rows give it.
PhaseMap == [h \in Jobs \X Nodes |-> PhaseOf(h[1], h[2])]

\* What the phases must do for each action of RollingSweep to be taken.
LEMMA EnlistsPhases ==
  ASSUME NEW S \in SUBSET (Jobs \X Nodes),
         \A h \in S : PhaseOf(h[1], h[2]) = "none" /\ PhaseOf(h[1], h[2])' = "waiting",
         \A h \in (Jobs \X Nodes) \ S : PhaseOf(h[1], h[2])' = PhaseOf(h[1], h[2])
  PROVE  Sweep!Next
<1>1. Sweep!Enlist(S)
  BY DEF Sweep!Enlist
<1>2. QED
  BY <1>1 DEF Sweep!Next

LEMMA SettlesPhases ==
  ASSUME NEW S \in SUBSET (Jobs \X Nodes),
         \A h \in S : PhaseOf(h[1], h[2]) \in {"waiting", "working"} /\ PhaseOf(h[1], h[2])' = "settled",
         \A h \in (Jobs \X Nodes) \ S : PhaseOf(h[1], h[2])' = PhaseOf(h[1], h[2])
  PROVE  Sweep!Next
<1>1. Sweep!Settle(S)
  BY DEF Sweep!Settle
<1>2. QED
  BY <1>1 DEF Sweep!Next

LEMMA BeginsPhases ==
  ASSUME NEW h \in Jobs \X Nodes,
         PhaseOf(h[1], h[2]) = "waiting", PhaseOf(h[1], h[2])' = "working",
         \A k \in (Jobs \X Nodes) \ {h} : /\ PhaseOf(k[1], k[2])' = PhaseOf(k[1], k[2])
                                          /\ PhaseOf(k[1], k[2]) # "working"
  PROVE  Sweep!Next
<1>1. Sweep!Begin(h)
  BY DEF Sweep!Begin
<1>2. QED
  BY <1>1 DEF Sweep!Next

LEMMA StillPhases ==
  ASSUME \A h \in Jobs \X Nodes : PhaseOf(h[1], h[2])' = PhaseOf(h[1], h[2])
  PROVE  UNCHANGED PhaseMap
BY DEF PhaseMap

LEMMA CreatedPhases ==
  ASSUME TypeInv, NEW j \in Jobs, Created(j)
  PROVE  Sweep!Next
<1> DEFINE S == {h \in Jobs \X Nodes : h[1] = j /\ rows'[j][h[2]] = "queued"}
<1>1. \A h \in S : PhaseOf(h[1], h[2]) = "none" /\ PhaseOf(h[1], h[2])' = "waiting"
  BY DEF Created, PhaseOf, Terminal
<1>2. ASSUME NEW h \in (Jobs \X Nodes) \ S
      PROVE  PhaseOf(h[1], h[2])' = PhaseOf(h[1], h[2])
  <2>1. CASE h[1] = j
    BY <1>2, <2>1 DEF Created, PhaseOf
  <2>2. CASE h[1] # j
    BY <1>2, <2>2 DEF Created, PhaseOf
  <2>3. QED
    BY <2>1, <2>2
<1> HIDE DEF S
<1>3. S \in SUBSET (Jobs \X Nodes)
  BY DEF S
<1>4. QED
  BY <1>1, <1>2, <1>3, EnlistsPhases

LEMMA LabelledPhases ==
  ASSUME TypeInv, LoopInv, NEW j \in Jobs, Labelled(j)
  PROVE  Sweep!Next \/ UNCHANGED PhaseMap
<1>0. /\ UNCHANGED rows /\ \A i \in Jobs \ {j} : jobs'[i] = jobs[i]
      /\ jobs[j] \in JobStatus /\ Listed(j) /\ \A n \in Nodes : rows[j][n] \in NodeStatus
  BY DEF Labelled, TypeInv, TypeOK, LoopInv
<1>1. CASE jobs[j] \in {"pending", "running"} /\ jobs'[j] = "running"
  <2>1. \A h \in Jobs \X Nodes : PhaseOf(h[1], h[2])' = PhaseOf(h[1], h[2])
    BY <1>0, <1>1 DEF PhaseOf, Listed
  <2>2. QED
    BY <2>1, StillPhases
<1>2. CASE jobs'[j] \in {"done", "failed", "aborted"}
  <2> DEFINE S == {h \in Jobs \X Nodes :
                     h[1] = j /\ PhaseOf(h[1], h[2]) \in {"waiting", "working"}}
  <2>1. ASSUME NEW h \in S
        PROVE  PhaseOf(h[1], h[2])' = "settled"
    <3>1. h[1] = j /\ h[2] \in Nodes /\ rows[j][h[2]] # "absent"
      BY DEF PhaseOf
    <3>2. QED
      BY <1>0, <1>2, <3>1 DEF PhaseOf
  <2>2. ASSUME NEW h \in (Jobs \X Nodes) \ S
        PROVE  PhaseOf(h[1], h[2])' = PhaseOf(h[1], h[2])
    <3>1. CASE h[1] # j
      BY <1>0, <3>1 DEF PhaseOf
    <3>2. CASE h[1] = j
      <4>1. PhaseOf(j, h[2]) \notin {"waiting", "working"}
        BY <3>2
      <4>2. QED
        BY <1>0, <1>2, <3>2, <4>1 DEF PhaseOf
    <3>3. QED
      BY <3>1, <3>2
  <2>3. S \in SUBSET (Jobs \X Nodes) /\ \A h \in S : PhaseOf(h[1], h[2]) \in {"waiting", "working"}
    OBVIOUS
  <2> HIDE DEF S
  <2>4. QED
    BY <2>1, <2>2, <2>3, SettlesPhases
<1>3. ASSUME NEW r \in Runners, JobOf(r) = j, FinishJob(r)
      PROVE  jobs'[j] \in {"done", "failed", "aborted"}
  BY <1>3, LabelTyped DEF FinishJob, TypeInv, TypeOK
<1>4. QED
  BY <1>1, <1>2, <1>3 DEF Labelled

LEMMA WorkedPhases ==
  ASSUME TypeInv, TypeInv', NEW j \in Jobs, NEW n \in Nodes, Worked(j, n)
  PROVE  Sweep!Next \/ UNCHANGED PhaseMap
<1> DEFINE h == <<j, n>>
<1>1. /\ jobs[j] = "running" /\ jobs' = jobs
      /\ rows[j][n] \in NodeStatus \ {"absent"} /\ rows'[j][n] \in NodeStatus \ {"absent", "queued"}
  BY DEF Worked, TypeInv, TypeOK
<1>2. \A k \in (Jobs \X Nodes) \ {h} : PhaseOf(k[1], k[2])' = PhaseOf(k[1], k[2])
  <2>1. ASSUME NEW k \in (Jobs \X Nodes) \ {h}
        PROVE  rows'[k[1]][k[2]] = rows[k[1]][k[2]]
    BY <2>1 DEF Worked, RowOnly
  <2>2. QED
    BY <1>1, <2>1 DEF PhaseOf
<1>3. /\ PhaseOf(j, n) = IF rows[j][n] \in Terminal THEN "settled"
                         ELSE IF rows[j][n] = "queued" THEN "waiting" ELSE "working"
      /\ PhaseOf(j, n)' = IF rows'[j][n] \in Terminal THEN "settled" ELSE "working"
  <2>1. jobs'[j] = "running" /\ rows'[j][n] \notin {"absent", "queued"}
    BY <1>1
  <2>2. PhaseOf(j, n)' = IF rows'[j][n] \in Terminal THEN "settled" ELSE "working"
    BY <2>1 DEF PhaseOf
  <2>3. QED
    BY <1>1, <2>2 DEF PhaseOf
<1>4. CASE rows[j][n] \in Terminal
  <2>1. rows'[j][n] = rows[j][n]
    BY <1>1, <1>4, RankTop DEF Worked, Forward
  <2>2. \A k \in Jobs \X Nodes : PhaseOf(k[1], k[2])' = PhaseOf(k[1], k[2])
    BY <1>2, <1>3, <1>4, <2>1
  <2>3. QED
    BY <2>2, StillPhases
<1>5. CASE rows[j][n] \notin Terminal /\ rows'[j][n] \in Terminal
  <2>1. {h} \in SUBSET (Jobs \X Nodes)
    OBVIOUS
  <2>2. \A k \in {h} : PhaseOf(k[1], k[2]) \in {"waiting", "working"} /\ PhaseOf(k[1], k[2])' = "settled"
    BY <1>3, <1>5
  <2>3. QED
    BY <1>2, <2>1, <2>2, SettlesPhases
<1>6. CASE rows[j][n] \notin Terminal \cup {"queued"} /\ rows'[j][n] \notin Terminal
  <2>1. \A k \in Jobs \X Nodes : PhaseOf(k[1], k[2])' = PhaseOf(k[1], k[2])
    BY <1>2, <1>3, <1>6
  <2>2. QED
    BY <2>1, StillPhases
<1>7. CASE rows[j][n] = "queued" /\ rows'[j][n] \notin Terminal
  <2>1. PhaseOf(h[1], h[2]) = "waiting" /\ PhaseOf(h[1], h[2])' = "working"
    BY <1>3, <1>7 DEF Terminal
  <2>2. \A k \in (Jobs \X Nodes) \ {h} : PhaseOf(k[1], k[2]) # "working"
    BY <1>7 DEF Worked
  <2>3. h \in Jobs \X Nodes
    OBVIOUS
  <2> HIDE DEF h
  <2>4. QED
    BY <1>2, <2>1, <2>2, <2>3, BeginsPhases
<1>8. QED
  BY <1>4, <1>5, <1>6, <1>7

\* The daemon implements RollingSweep: over all the jobs of the cluster, through
\* aborts, exceptions and restarts, a host is taken only while no other is being
\* worked on, each at most once, and is settled for good (start_job's busy check,
\* _run_job's loop, _resume_disposition).
THEOREM ImplementsRollingSweep ==
  ASSUME "race" \notin Faults
  PROVE  Spec => OneHostAtATime
<1>1. Init => Sweep!Init
  <2> SUFFICES ASSUME Init, NEW h \in Jobs \X Nodes
               PROVE  PhaseOf(h[1], h[2]) = "none"
    BY DEF Sweep!Init
  <2>1. h[1] \in Jobs /\ h[2] \in Nodes
    OBVIOUS
  <2>2. rows[h[1]][h[2]] = "absent"
    BY <2>1 DEF Init, NoRows
  <2>3. QED
    BY <2>2 DEF PhaseOf
<1>2. TypeInv /\ TypeInv' /\ SweepInv /\ LoopInv /\ [Next]_vars => Sweep!Next \/ UNCHANGED PhaseMap
  <2> SUFFICES ASSUME TypeInv, TypeInv', SweepInv, LoopInv, [Next]_vars
               PROVE  Sweep!Next \/ UNCHANGED PhaseMap
    OBVIOUS
  <2>1. CASE UNCHANGED <<jobs, rows>>
    BY <2>1 DEF PhaseMap, PhaseOf
  <2>2. QED
    BY <2>1, RowSteps, CreatedPhases, LabelledPhases, WorkedPhases
<1>3. QED
  BY <1>1, <1>2, LoopSpec, PTL DEF Spec, OneHostAtATime, Sweep!Spec, PhaseMap

-----------------------------------------------------------------------------
(* Guests come home.                                                       *)

\* The guests that are the orchestrator's to move.
Own == Guests \ HaGuests

AtHome(g) == where[g] = Home[g] /\ g \in on

\* A host whose guests should be at home: none was taken off it, or the only job
\* that took them off has brought them back.
Keeps(n) ==
  \/ \A j \in Jobs : rows[j][n] \in Unmoved
  \/ \E j \in Jobs : rows[j][n] \in {"done", "skipped"} /\ opts[j].back /\ Alone(j, n)

\* From the evacuation of its host on, a runner with locals x knows where to bring
\* the host's guest g back from.
Gone == HostPhases \ {"preflight", "enter_maint", "drain"}

Returns(x, g) ==
  /\ x.pc \in {"evacuate", "ceph"} => where[g] = x.host
  /\ x.pc \in {"updating", "awaiting", "reboot", "polling", "leave_maint"} =>
       g \in x.moved /\ where[g] = x.plan[g]
  /\ x.pc = "moving" /\ ~x.bad =>
       IF g \in x.pending THEN where[g] = x.host ELSE g \in x.moved /\ where[g] = x.plan[g]
  /\ x.pc = "restoring" /\ ~x.bad =>
       where[g] = IF g \in x.pending THEN x.plan[g] ELSE x.host

OnTrack(r) ==
  runner[r].pc \in Gone =>
    /\ \A g \in Own : Home[g] = Host(r) /\ Opt(r).back /\ Alone(JobOf(r), Host(r)) =>
         g \in on /\ Returns(runner[r], g)
    /\ \A g \in Own \cap runner[r].moved : Home[g] # Host(r) => ~Keeps(Home[g])
    /\ runner[r].pc = "restoring" => runner[r].pending \subseteq runner[r].moved
    /\ runner[r].pc = "moving" /\ ~InPlace(r) => \A g \in runner[r].pending : runner[r].plan[g] # NoNode

\* The guests of a host that is not being worked on are at home, and those of one
\* that is can be brought home.
HomeInv ==
  /\ \A g \in Own : Keeps(Home[g]) => AtHome(g)
  /\ \A j \in Jobs : opts[j].mode = "in_place" => ~opts[j].back
  /\ \A r \in Runners : OnTrack(r)

\* No host comes to be one whose guests should be at home.
NoGain ==
  /\ \A n \in Nodes : Keeps(n)' => Keeps(n)
  /\ \A j \in Jobs, n \in Nodes : Alone(j, n)' => Alone(j, n)

LEMMA RankOfUnmoved ==
  ASSUME NEW s \in NodeStatus, NEW t \in Unmoved, Rank(s) < Rank(t)
  PROVE  s \in Unmoved
BY DEF NodeStatus, InFlight, Terminal, Rank, Unmoved

LEMMA UnmovedBefore ==
  ASSUME TypeInv, NEW j \in Jobs, NEW n \in Nodes, RowOnly(j, n), Forward(j, n)
  PROVE  \A i \in Jobs, m \in Nodes : rows'[i][m] \in Unmoved => rows[i][m] \in Unmoved
<1>1. ASSUME rows'[j][n] \in Unmoved
      PROVE  rows[j][n] \in Unmoved
  <2>1. rows[j][n] \in NodeStatus
    BY DEF TypeInv, TypeOK
  <2>2. QED
    BY <1>1, <2>1, RankOfUnmoved DEF Forward
<1>2. QED
  BY <1>1 DEF RowOnly

LEMMA NothingGained ==
  ASSUME TypeInv, NEW j \in Jobs, NEW n \in Nodes, RowOnly(j, n), Forward(j, n), UNCHANGED opts,
         rows'[j][n] \notin {"done", "skipped"} \/ rows'[j][n] = rows[j][n]
  PROVE  NoGain
<1>1. \A i \in Jobs, m \in Nodes : rows'[i][m] \in Unmoved => rows[i][m] \in Unmoved
  BY UnmovedBefore
<1>2. \A i \in Jobs, m \in Nodes : Alone(i, m)' => Alone(i, m)
  BY <1>1 DEF Alone
<1>3. \A i \in Jobs, m \in Nodes :
        rows'[i][m] \in {"done", "skipped"} => rows'[i][m] = rows[i][m]
  BY DEF RowOnly
<1>4. \A m \in Nodes : Keeps(m)' => Keeps(m)
  BY <1>1, <1>2, <1>3 DEF Keeps
<1>5. QED
  BY <1>2, <1>4 DEF NoGain

\* The guests of ours stay where they are.
Stay == \A g \in Own : where'[g] = where[g] /\ (g \in on => g \in on')

\* A step of the runner that is alive.
LEMMA OneHome ==
  ASSUME NEW r \in Runners, Others(r), \A other \in Runners \ {r} : ~Live(other),
         HomeInv, UNCHANGED opts, \A g \in Own : Keeps(Home[g])' => AtHome(g)', OnTrack(r)'
  PROVE  HomeInv'
<1>1. ASSUME NEW other \in Runners \ {r}
      PROVE  OnTrack(other)'
  BY <1>1 DEF Others, Live, OnTrack, Gone, HostPhases
<1>2. QED
  BY <1>1 DEF HomeInv

LEMMA GuestsAtHome ==
  ASSUME HomeInv, NoGain, Stay
  PROVE  \A g \in Own : Keeps(Home[g])' => AtHome(g)'
<1>1. ASSUME NEW g \in Own
      PROVE  Home[g] \in Nodes
  BY ConstantsOK DEF Own
<1>2. QED
  BY <1>1 DEF HomeInv, NoGain, Stay, AtHome

\* The runner leaves its host, or is not yet at its guests.
LEMMA AwayHome ==
  ASSUME HomeInv, NEW r \in Runners, Others(r), \A other \in Runners \ {r} : ~Live(other),
         UNCHANGED opts, NoGain, Stay, runner'[r].pc \notin Gone
  PROVE  HomeInv'
BY OneHome, GuestsAtHome DEF OnTrack

\* Nothing happens to the runners.
LEMMA AsideHome ==
  ASSUME HomeInv, UNCHANGED <<opts, runner>>, NoGain, Stay, TypeInv
  PROVE  HomeInv'
<1>1. ASSUME NEW r \in Runners, runner[r].pc \in Gone
      PROVE  OnTrack(r)'
  <2>1. Host(r) \in Nodes /\ JobOf(r) \in Jobs /\ Host(r)' = Host(r) /\ JobOf(r)' = JobOf(r)
        /\ Opt(r)' = Opt(r) /\ InPlace(r)' = InPlace(r)
    BY <1>1, RunnersAreJobs DEF TypeInv, HostKnown, Gone, Host, JobOf, Opt, InPlace
  <2>2. \A g \in Own : Home[g] \in Nodes
    BY ConstantsOK DEF Own
  <2>3. /\ Alone(JobOf(r), Host(r))' => Alone(JobOf(r), Host(r))
        /\ \A g \in Own : Keeps(Home[g])' => Keeps(Home[g])
    BY <2>1, <2>2 DEF NoGain
  <2>4. \A g \in Own : Returns(runner[r], g) => Returns(runner[r], g)'
    BY DEF Returns, Stay
  <2>5. OnTrack(r)
    BY DEF HomeInv
  <2>6. QED
    BY <2>1, <2>3, <2>4, <2>5 DEF OnTrack, Stay
<1>2. \A r \in Runners : OnTrack(r)'
  BY <1>1 DEF OnTrack
<1>3. QED
  BY <1>2, GuestsAtHome DEF HomeInv

LEMMA RowsKept ==
  ASSUME UNCHANGED <<rows, opts>>
  PROVE  NoGain
BY DEF NoGain, Keeps, Alone

LEMMA EnvironmentStays ==
  ASSUME TypeInv, EmptyInv, Environment
  PROVE  Stay
<1>1. CASE Poll \/ CephHeals \/ \E n \in Nodes : NodeComesUp(n)
  BY <1>1 DEF Poll, CephHeals, NodeComesUp, placing, Stay
<1>2. ASSUME NEW n \in Nodes, NodeGoesDown(n)
      PROVE  Stay
  <2>1. where' = where /\ on' = {g \in on : where[g] # n} /\ power[n] = "restarting"
    BY <1>2 DEF NodeGoesDown
  <2>2. ASSUME NEW g \in Own, g \in on
        PROVE  where[g] # n
    BY <2>1, <2>2 DEF EmptyInv, RebootOnlyEmpty, Own
  <2>3. QED
    BY <2>1, <2>2 DEF Stay
<1>3. ASSUME NEW h \in HaGuests, NEW n \in Nodes, HaMoves(h, n)
      PROVE  Stay
  BY <1>3 DEF HaMoves, Stay, Own, TypeInv, TypeOK
<1>4. QED
  BY <1>1, <1>2, <1>3 DEF Environment, EmptyInv

LEMMA CreateHome ==
  ASSUME TypeInv, LoopInv, HomeInv, NEW j \in Jobs, NEW o \in JobOptions, CreateJob(j, o)
  PROVE  HomeInv'
<1>1. /\ jobs[j] = "absent" /\ UNCHANGED <<runner, where, on>>
      /\ \A i \in Jobs \ {j} : rows'[i] = rows[i] /\ opts'[i] = opts[i]
      /\ opts'[j].mode = "in_place" => ~opts'[j].back
      /\ \A n \in Nodes : rows'[j][n] \in {"absent", "queued"} /\ rows[j][n] = "absent"
  <2>1. o \in OptionType
    BY ConstantsOK
  <2>2. opts'[j] = [o EXCEPT !.back = @ /\ o.mode # "in_place"]
    BY DEF CreateJob, TypeInv, TypeOK
  <2>3. opts'[j].mode = o.mode /\ opts'[j].back = (o.back /\ o.mode # "in_place")
    BY <2>1, <2>2 DEF OptionType
  <2>4. \A n \in Nodes : rows[j][n] = "absent"
    BY DEF CreateJob, LoopInv, Listed
  <2>5. QED
    BY <2>3, <2>4 DEF CreateJob, TypeInv, TypeOK, placing
<1>2. NoGain
  <2>1. \A i \in Jobs, n \in Nodes : rows'[i][n] \in Unmoved => rows[i][n] \in Unmoved
    BY <1>1 DEF Unmoved
  <2>2. \A i \in Jobs, n \in Nodes : rows'[i][n] \in {"done", "skipped"} => i # j
    BY <1>1
  <2>3. QED
    BY <1>1, <2>1, <2>2 DEF NoGain, Keeps, Alone
<1>3. Stay
  BY <1>1 DEF Stay
<1>4. ASSUME NEW r \in Runners, runner[r].pc \in Gone
      PROVE  OnTrack(r)'
  <2>1. Host(r) \in Nodes /\ JobOf(r) \in Jobs
    BY <1>4, RunnersAreJobs DEF TypeInv, HostKnown, Gone, Host
  <2>2. JobOf(r) # j
    BY <1>1, <1>4 DEF LoopInv, Loops, Live, Gone, HostPhases
  <2>3. /\ Host(r)' = Host(r) /\ JobOf(r)' = JobOf(r)
        /\ Opt(r)' = Opt(r) /\ InPlace(r)' = InPlace(r)
    BY <1>1, <2>1, <2>2 DEF Host, JobOf, Opt, InPlace
  <2>4. \A g \in Own : Home[g] \in Nodes
    BY ConstantsOK DEF Own
  <2>5. /\ Alone(JobOf(r), Host(r))' => Alone(JobOf(r), Host(r))
        /\ \A g \in Own : Keeps(Home[g])' => Keeps(Home[g])
    BY <1>2, <2>1, <2>3, <2>4 DEF NoGain
  <2>6. \A g \in Own : Returns(runner[r], g) => Returns(runner[r], g)'
    BY <1>1 DEF Returns
  <2>7. OnTrack(r)
    BY DEF HomeInv
  <2>8. QED
    BY <1>1, <2>3, <2>5, <2>6, <2>7 DEF OnTrack
<1>5. \A r \in Runners : OnTrack(r)'
  BY <1>1, <1>4 DEF OnTrack
<1>6. \A i \in Jobs : opts'[i].mode = "in_place" => ~opts'[i].back
  BY <1>1 DEF HomeInv
<1>7. QED
  BY <1>2, <1>3, <1>5, <1>6, GuestsAtHome DEF HomeInv

LEMMA AdminHome ==
  ASSUME TypeInv, LoopInv, HomeInv, Admin
  PROVE  HomeInv'
<1>1. ASSUME ~\E j \in Jobs, o \in JobOptions : CreateJob(j, o)
      PROVE  HomeInv'
  <2>1. UNCHANGED <<opts, rows, runner, where, on>>
    BY <1>1 DEF Admin, StartCheck, AbortJob, ConfirmReboot, db, placing
  <2>2. Stay /\ NoGain
    BY <2>1, RowsKept DEF Stay
  <2>3. QED
    BY <2>1, <2>2, AsideHome
<1>2. QED
  BY <1>1, CreateHome

LEMMA EnvironmentHome ==
  ASSUME TypeInv, EmptyInv, HomeInv, Environment
  PROVE  HomeInv'
<1>1. UNCHANGED <<opts, rows, runner>>
  BY DEF Environment, Poll, CephHeals, NodeGoesDown, NodeComesUp, HaMoves, LateTask, db
<1>2. QED
  BY <1>1, EnvironmentStays, RowsKept, AsideHome

LEMMA RestartHome ==
  ASSUME HomeInv, Restart
  PROVE  HomeInv'
<1>1. /\ UNCHANGED <<opts, rows, where, on>>
      /\ \A r \in Runners : runner'[r].pc \in {"idle", "spawned"}
  BY DEF Restart, Respawn, db, placing, SpawnedRunner, IdleRunner, Fresh
<1>2. \A r \in Runners : OnTrack(r)'
  BY <1>1 DEF OnTrack, Gone, HostPhases
<1>3. \A g \in Own : Keeps(Home[g])' => AtHome(g)'
  BY <1>1, RowsKept, GuestsAtHome DEF Stay
<1>4. QED
  BY <1>1, <1>2, <1>3 DEF HomeInv

LEMMA SpawnHome ==
  ASSUME TypeInv, SweepInv, HomeInv, NEW q \in Requests, NEW r \in Runners, StartSpawn(q, r)
  PROVE  HomeInv'
<1>1. /\ UNCHANGED <<opts, rows, where, on>> /\ Others(r) /\ runner'[r].pc = "spawned"
  BY DEF StartSpawn, db, placing, SpawnedRunner, Fresh, Others, TypeInv, TypeOK
<1>2. \A other \in Runners \ {r} : ~Live(other)
  BY ConstantsOK, RunnersAreJobs DEF StartSpawn, SweepInv
<1>3. Stay /\ NoGain /\ runner'[r].pc \notin Gone
  BY <1>1, RowsKept DEF Stay, Gone, HostPhases
<1>4. QED
  BY <1>1, <1>2, <1>3, AwayHome

LEMMA SweepStepHome ==
  ASSUME TypeInv, SweepInv, LoopInv, HomeInv, NEW r \in Runners, SweepStep(r)
  PROVE  HomeInv'
<1>1. /\ UNCHANGED <<opts, where, on>> /\ Others(r) /\ runner[r] \in RunnerType
  BY DEF SweepStep, ReadJob, MarkRunning, ClusterMissing, DetectCeph, LeaveLoop, SkipHost,
         FailInterrupted, NoTarget, BeginHost, FinishJob, Cleanup, Goto, Others, db, placing,
         TypeInv, TypeOK
<1>2. runner'[r].pc \notin Gone /\ Live(r)
  <2>1. runner[r].pc \notin HostPhases \cup {"idle"}
    BY DEF SweepStep, ReadJob, MarkRunning, ClusterMissing, DetectCeph, LeaveLoop, SkipHost, NextIs,
           FailInterrupted, NoTarget, BeginHost, FinishJob, Cleanup, At, HostPhases
  <2>2. runner'[r].pc \in {"idle", "read", "marked", "loop", "finish", "preflight"} \/ runner'[r].pc = runner[r].pc
    BY <1>1 DEF SweepStep, ReadJob, MarkRunning, ClusterMissing, DetectCeph, LeaveLoop, SkipHost,
         FailInterrupted, NoTarget, BeginHost, FinishJob, Cleanup, Goto, IdleRunner, Fresh, RunnerType,
         TypeInv, TypeOK
  <2>3. QED
    BY <2>1, <2>2 DEF Gone, HostPhases, Live
<1>3. NoGain
  <2>1. CASE FailInterrupted(r) \/ NoTarget(r) \/ BeginHost(r)
    <3> DEFINE j == JobOf(r)
               n == Head(runner[r].todo)
    <3>1. j \in Jobs /\ n \in Nodes /\ rows'[j][n] \in {"preflight", "failed"} /\ Worked(j, n)
      BY <2>1, TakesHost, WorkedNext
    <3>2. QED
      BY <1>1, <3>1, NothingGained DEF Worked
  <2>2. CASE ~(FailInterrupted(r) \/ NoTarget(r) \/ BeginHost(r))
    <3>1. UNCHANGED rows
      BY <2>2 DEF SweepStep, ReadJob, MarkRunning, ClusterMissing, DetectCeph, LeaveLoop, SkipHost,
                  FinishJob, Cleanup, db
    <3>2. QED
      BY <1>1, <3>1, RowsKept
  <2>3. QED
    BY <2>1, <2>2
<1>4. \A other \in Runners \ {r} : ~Live(other)
  BY <1>2, AloneWhenLive
<1>5. QED
  BY <1>1, <1>2, <1>3, <1>4, AwayHome DEF Stay

LEMMA RaiseHome ==
  ASSUME TypeInv, SweepInv, LoopInv, HomeInv, NEW r \in Runners, Raise(r)
  PROVE  HomeInv'
<1>1. /\ UNCHANGED <<opts, rows, where, on>> /\ Others(r) /\ runner'[r].pc \in {"idle", "cleanup"}
      /\ Live(r)
  BY DEF Raise, Others, db, placing, TypeInv, TypeOK, IdleRunner, Fresh, Live, HostPhases, RunnerType
<1>2. \A other \in Runners \ {r} : ~Live(other)
  BY <1>1, AloneWhenLive
<1>3. QED
  BY <1>1, <1>2, RowsKept, AwayHome DEF Stay, Gone, HostPhases

\* What every step of a runner within its host gives.
LEMMA HostMoveFacts ==
  ASSUME TypeInv, SweepInv, LoopInv, NEW r \in Runners, HostMove(r)
  PROVE  /\ Others(r) /\ \A other \in Runners \ {r} : ~Live(other)
         /\ UNCHANGED opts /\ Host(r)' = Host(r) /\ Opt(r)' = Opt(r) /\ InPlace(r)' = InPlace(r)
         /\ JobOf(r) \in Jobs /\ Host(r) \in Nodes /\ runner[r] \in RunnerType
         /\ Fits(runner[r].pc, runner[r].bad, runner[r].raised, rows[JobOf(r)][Host(r)])
         /\ RowOnly(JobOf(r), Host(r)) /\ Forward(JobOf(r), Host(r))
<1>1. runner[r].pc \in AtAHost
  BY DEF HostMove, AtAHost
<1>2. Live(r)
  BY <1>1, AtHostFacts
<1>3. QED
  BY <1>1, <1>2, AtHostFacts, AloneWhenLive DEF HostMove, Host, Opt, InPlace, JobOf

LEMMA MoveGainsNothing ==
  ASSUME TypeInv, SweepInv, LoopInv, NEW r \in Runners, HostMove(r),
         \/ runner'[r].pc \in HostPhases
         \/ rows'[JobOf(r)][Host(r)] \in {"failed", rows[JobOf(r)][Host(r)]}
  PROVE  NoGain
<1>1. CASE runner'[r].pc \in HostPhases
  <2>1. Fits(runner'[r].pc, runner'[r].bad, runner'[r].raised, rows'[JobOf(r)][Host(r)])
    BY DEF HostMove
  <2>2. rows'[JobOf(r)][Host(r)] \notin {"done", "skipped"}
    BY <1>1, <2>1 DEF Fits, HostPhases, Phases
  <2>3. QED
    BY <2>2, HostMoveFacts, NothingGained
<1>2. CASE rows'[JobOf(r)][Host(r)] \in {"failed", rows[JobOf(r)][Host(r)]}
  BY <1>2, HostMoveFacts, NothingGained
<1>3. QED
  BY <1>1, <1>2

\* The runner leaves its host, or is not yet at its guests.
LEMMA LeavesHome ==
  ASSUME TypeInv, SweepInv, LoopInv, HomeInv, NEW r \in Runners, HostMove(r), Stay,
         \/ runner'[r].pc \in HostPhases \ Gone
         \/ /\ runner'[r].pc = "cleanup"
            /\ rows'[JobOf(r)][Host(r)] \in {"failed", rows[JobOf(r)][Host(r)]}
  PROVE  HomeInv'
BY HostMoveFacts, MoveGainsNothing, AwayHome DEF Gone, HostPhases

\* The runner goes on with its guests where they are.
LEMMA OnwardHome ==
  ASSUME TypeInv, SweepInv, LoopInv, HomeInv, NEW r \in Runners, HostMove(r), Stay,
         runner[r].pc \in Gone, runner'[r].pc \in HostPhases,
         runner'[r].moved = runner[r].moved,
         \A g \in Own : Opt(r).back /\ g \in on /\ Returns(runner[r], g) => Returns(runner[r], g)',
         runner'[r].pc = "restoring" => runner'[r].pending \subseteq runner'[r].moved,
         runner'[r].pc = "moving" /\ ~InPlace(r) =>
           \A g \in runner'[r].pending : runner'[r].plan[g] # NoNode
  PROVE  HomeInv'
<1>1. NoGain
  BY MoveGainsNothing
<1>2. \A g \in Own : Home[g] \in Nodes
  BY ConstantsOK DEF Own
<1>3. OnTrack(r)
  BY DEF HomeInv
<1>4. /\ Host(r)' = Host(r) /\ Opt(r)' = Opt(r) /\ InPlace(r)' = InPlace(r) /\ JobOf(r)' = JobOf(r)
      /\ Host(r) \in Nodes /\ JobOf(r) \in Jobs
  BY HostMoveFacts DEF JobOf
<1>5. /\ Alone(JobOf(r), Host(r))' => Alone(JobOf(r), Host(r))
      /\ \A g \in Own : Keeps(Home[g])' => Keeps(Home[g])
  BY <1>1, <1>2, <1>4 DEF NoGain
<1>6. OnTrack(r)'
  BY <1>3, <1>4, <1>5 DEF OnTrack, Stay
<1>7. QED
  BY <1>1, <1>6, HostMoveFacts, GuestsAtHome, OneHome

LEMMA FailsHome ==
  ASSUME TypeInv, SweepInv, LoopInv, HomeInv, NEW r \in Runners,
         \/ PreflightFails(r) \/ EnterMaintenanceFails(r) \/ DrainFails(r) \/ Shortfall(r)
         \/ AptFails(r) \/ AwaitEnds(r) \/ RebootTimesOut(r) \/ RestoreFails(r)
         \/ CephWaitAborted(r) \/ (EvacuationFails(r) /\ ~InPlace(r))
  PROVE  HomeInv'
<1>1. HostMove(r)
  BY HostStepMoves DEF HostStep
<1>2. SetRow(r, "failed") /\ Goto(r, "cleanup") /\ UNCHANGED <<where, on>>
  BY DEF PreflightFails, EnterMaintenanceFails, DrainFails, Shortfall, AptFails, AwaitEnds,
         RebootTimesOut, RestoreFails, CephWaitAborted, EvacuationFails, FailHost, placing
<1>3. runner'[r].pc = "cleanup" /\ rows'[JobOf(r)][Host(r)] = "failed"
  BY <1>1, <1>2, HostMoveFacts, RowEffect DEF SetRow, Goto, TypeInv, TypeOK, RunnerType
<1>4. QED
  BY <1>1, <1>2, <1>3, LeavesHome DEF Stay

LEMMA EarlyHome ==
  ASSUME TypeInv, SweepInv, LoopInv, HomeInv, NEW r \in Runners,
         (PreflightPasses(r) /\ HaServicesOn(Host(r)) # {}) \/ EnterMaintenance(r)
  PROVE  HomeInv'
<1>1. HostMove(r)
  BY HostStepMoves DEF HostStep
<1>2. runner'[r].pc \in {"enter_maint", "drain"} /\ UNCHANGED <<where, on>>
  BY <1>1, HostMoveFacts
     DEF PreflightPasses, EnterMaintenance, placing, TypeInv, TypeOK, RunnerType
<1>3. QED
  BY <1>1, <1>2, LeavesHome DEF Gone, HostPhases, Phases, Stay

\* Before the evacuation no guest has left its home.
LEMMA EvacuateHome ==
  ASSUME TypeInv, SweepInv, LoopInv, AllKnow, HomeInv, NEW r \in Runners,
         (PreflightPasses(r) /\ HaServicesOn(Host(r)) = {}) \/ HaDrained(r)
  PROVE  HomeInv'
<1>1. HostMove(r)
  BY HostStepMoves DEF HostStep
<1>2. /\ runner'[r].pc = "evacuate" /\ runner[r].pc \in {"preflight", "drain"}
      /\ runner'[r].moved = runner[r].moved /\ UNCHANGED <<where, on>>
  BY <1>1, HostMoveFacts
     DEF PreflightPasses, HaDrained, Goto, placing, TypeInv, TypeOK, RunnerType, At
<1>3. runner[r].moved = {}
  BY <1>2 DEF AllKnow, Knows, AtHost
<1>4. NoGain /\ Stay
  BY <1>1, <1>2, MoveGainsNothing DEF HostPhases, Phases, Stay
<1>5. rows[JobOf(r)][Host(r)] = "preflight"
  BY <1>1, <1>2, HostMoveFacts DEF Fits
<1>6. ASSUME NEW g \in Own, Home[g] = Host(r), Alone(JobOf(r), Host(r))'
      PROVE  where[g] = Host(r) /\ g \in on
  <2>1. Alone(JobOf(r), Host(r))
    <3>1. Host(r) \in Nodes /\ JobOf(r) \in Jobs /\ Host(r)' = Host(r) /\ JobOf(r)' = JobOf(r)
      BY <1>1, HostMoveFacts DEF JobOf
    <3>2. QED
      BY <1>4, <1>6, <3>1 DEF NoGain
  <2>2. \A j \in Jobs : rows[j][Host(r)] \in Unmoved
    BY <1>5, <2>1 DEF Alone, Unmoved
  <2>3. Keeps(Home[g])
    BY <1>6, <2>2 DEF Keeps
  <2>4. QED
    BY <1>6, <2>3 DEF HomeInv, AtHome
<1>7. Host(r)' = Host(r) /\ JobOf(r)' = JobOf(r)
  BY <1>1, HostMoveFacts DEF JobOf
<1>8. OnTrack(r)'
  <2>1. \A g \in Own : where[g] = Host(r) => Returns(runner[r], g)'
    BY <1>2, <1>7 DEF Returns, Host
  <2>2. QED
    BY <1>2, <1>3, <1>6, <1>7, <2>1 DEF OnTrack
<1>9. QED
  BY <1>1, <1>4, <1>8, HostMoveFacts, GuestsAtHome, OneHome

LEMMA DoneHome ==
  ASSUME TypeInv, SweepInv, LoopInv, HomeInv, NEW r \in Runners, HostDone(r)
  PROVE  HomeInv'
<1> DEFINE j == JobOf(r)
           h == Host(r)
<1>1. HostMove(r)
  BY HostStepMoves DEF HostStep
<1>2. /\ runner[r].pc = "ceph" /\ runner'[r].pc = "cleanup" /\ UNCHANGED <<where, on, opts>>
      /\ j \in Jobs /\ h \in Nodes /\ rows'[j][h] \in {"done", "skipped"}
  BY <1>1, HostMoveFacts, RowEffect
     DEF HostDone, SetRow, Goto, At, placing, TypeInv, TypeOK, RunnerType
<1>3. rows[j][h] \in {"awaiting_reboot", "rebooting", "restoring"}
  BY <1>1, <1>2, HostMoveFacts DEF Fits
<1>4. \A i \in Jobs, m \in Nodes : rows'[i][m] \in Unmoved => rows[i][m] \in Unmoved
  BY <1>1, HostMoveFacts, UnmovedBefore
<1>5. RowOnly(j, h)
  BY <1>1, HostMoveFacts
<1>6. ASSUME NEW g \in Own, Keeps(Home[g])'
      PROVE  AtHome(g)
  <2>1. Home[g] \in Nodes
    BY ConstantsOK DEF Own
  <2>2. CASE Keeps(Home[g])
    BY <2>2 DEF HomeInv
  <2>3. CASE ~Keeps(Home[g])
    <3>1. PICK i \in Jobs : rows'[i][Home[g]] \in {"done", "skipped"} /\ opts[i].back /\ Alone(i, Home[g])'
      BY <1>2, <1>4, <1>6, <2>1, <2>3 DEF Keeps
    <3>2. Alone(i, Home[g])
      BY <1>4, <2>1, <3>1 DEF Alone
    <3>3. i = j /\ Home[g] = h
      BY <1>5, <2>1, <2>3, <3>1, <3>2 DEF RowOnly, Keeps
    <3>4. g \in on /\ Returns(runner[r], g)
      BY <1>2, <3>1, <3>2, <3>3 DEF HomeInv, OnTrack, Gone, HostPhases, Phases, Opt
    <3>5. QED
      BY <1>2, <3>3, <3>4 DEF Returns, AtHome, Host
  <2>4. QED
    BY <2>2, <2>3
<1>7. \A g \in Own : Keeps(Home[g])' => AtHome(g)'
  BY <1>2, <1>6 DEF AtHome
<1>8. OnTrack(r)'
  BY <1>2 DEF OnTrack, Gone, HostPhases
<1>9. QED
  BY <1>1, <1>7, <1>8, HostMoveFacts, OneHome

\* The phases between the evacuation and the return of the guests.
LEMMA AwayStepsHome ==
  ASSUME TypeInv, SweepInv, LoopInv, HomeInv, NEW r \in Runners,
         \/ AptUpgrade(r) \/ SkipReboot(r) \/ PrepareReboot(r)
         \/ IssueReboot(r) \/ BackOnline(r) \/ Evacuated(r) \/ Restored(r)
  PROVE  HomeInv'
<1>1. HostMove(r) /\ runner[r] \in RunnerType
  BY HostStepMoves, HostMoveFacts DEF HostStep
<1>2. UNCHANGED <<where, on>>
  BY DEF AptUpgrade, SkipReboot, PrepareReboot, IssueReboot, BackOnline, Evacuated, Restored, placing
<1>3. PICK p \in Phases, choice \in Choices, noout1 \in BOOLEAN :
        /\ runner' = [runner EXCEPT ![r] = [runner[r] EXCEPT !.pc = p, !.choice = choice, !.nooutOn = noout1]]
        /\ \/ /\ runner[r].pc \in {"updating", "awaiting", "reboot", "polling"}
              /\ p \in {"awaiting", "reboot", "polling", "leave_maint"}
           \/ /\ runner[r].pc = "moving" /\ runner[r].pending = {} /\ ~runner[r].bad
              /\ p = "updating"
           \/ /\ runner[r].pc = "restoring" /\ runner[r].pending = {} /\ ~runner[r].bad
              /\ p = "ceph"
  <2>1. CASE AptUpgrade(r)
    <3>1. /\ "awaiting" \in Phases /\ runner[r].choice \in Choices /\ runner[r].nooutOn \in BOOLEAN
          /\ runner' = [runner EXCEPT ![r] = [runner[r] EXCEPT !.pc = "awaiting", !.choice = runner[r].choice,
                                                              !.nooutOn = runner[r].nooutOn]]
      BY <1>1, <2>1 DEF AptUpgrade, Goto, Phases, Choices, TypeInv, TypeOK, RunnerType
    <3>2. QED
      BY <2>1, <3>1 DEF AptUpgrade, At
  <2>2. CASE IssueReboot(r)
    <3>1. /\ "polling" \in Phases /\ runner[r].choice \in Choices /\ runner[r].nooutOn \in BOOLEAN
          /\ runner' = [runner EXCEPT ![r] = [runner[r] EXCEPT !.pc = "polling", !.choice = runner[r].choice,
                                                              !.nooutOn = runner[r].nooutOn]]
      BY <1>1, <2>2 DEF IssueReboot, Goto, Phases, Choices, TypeInv, TypeOK, RunnerType
    <3>2. QED
      BY <2>2, <3>1 DEF IssueReboot, At
  <2>3. CASE Evacuated(r)
    <3>1. /\ "updating" \in Phases /\ runner[r].choice \in Choices /\ runner[r].nooutOn \in BOOLEAN
          /\ runner' = [runner EXCEPT ![r] = [runner[r] EXCEPT !.pc = "updating", !.choice = runner[r].choice,
                                                              !.nooutOn = runner[r].nooutOn]]
      BY <1>1, <2>3 DEF Evacuated, Goto, Phases, Choices, TypeInv, TypeOK, RunnerType
    <3>2. QED
      BY <2>3, <3>1 DEF Evacuated, At
  <2>4. CASE Restored(r)
    <3>1. /\ "ceph" \in Phases /\ runner[r].choice \in Choices /\ runner[r].nooutOn \in BOOLEAN
          /\ runner' = [runner EXCEPT ![r] = [runner[r] EXCEPT !.pc = "ceph", !.choice = runner[r].choice,
                                                              !.nooutOn = runner[r].nooutOn]]
      BY <1>1, <2>4 DEF Restored, Goto, Phases, Choices, TypeInv, TypeOK, RunnerType
    <3>2. QED
      BY <2>4, <3>1 DEF Restored, At
  <2>5. CASE SkipReboot(r)
    <3>1. /\ "leave_maint" \in Phases /\ "skip" \in Choices /\ runner[r].nooutOn \in BOOLEAN
          /\ runner' = [runner EXCEPT ![r] = [runner[r] EXCEPT !.pc = "leave_maint", !.choice = "skip",
                                                              !.nooutOn = runner[r].nooutOn]]
      BY <1>1, <2>5 DEF SkipReboot, Phases, Choices, TypeInv, TypeOK, RunnerType
    <3>2. QED
      BY <2>5, <3>1 DEF SkipReboot, At
  <2>6. CASE PrepareReboot(r)
    <3>1. /\ "reboot" \in Phases /\ "reboot" \in Choices /\ runner[r].gate \in BOOLEAN
          /\ runner' = [runner EXCEPT ![r] = [runner[r] EXCEPT !.pc = "reboot", !.choice = "reboot",
                                                              !.nooutOn = runner[r].gate]]
      BY <1>1, <2>6 DEF PrepareReboot, Phases, Choices, TypeInv, TypeOK, RunnerType
    <3>2. QED
      BY <2>6, <3>1 DEF PrepareReboot, At
  <2>7. CASE BackOnline(r)
    <3>1. /\ "leave_maint" \in Phases /\ runner[r].choice \in Choices /\ FALSE \in BOOLEAN
          /\ runner' = [runner EXCEPT ![r] = [runner[r] EXCEPT !.pc = "leave_maint", !.choice = runner[r].choice,
                                                              !.nooutOn = FALSE]]
      BY <1>1, <2>7 DEF BackOnline, Phases, Choices, TypeInv, TypeOK, RunnerType
    <3>2. QED
      BY <2>7, <3>1 DEF BackOnline, At
  <2>8. QED
    BY <2>1, <2>2, <2>3, <2>4, <2>5, <2>6, <2>7
<1>4. /\ runner'[r].moved = runner[r].moved /\ runner'[r].plan = runner[r].plan
      /\ runner'[r].pending = runner[r].pending /\ runner'[r].host = runner[r].host
      /\ runner'[r].pc = p
  BY <1>1, <1>3 DEF TypeInv, TypeOK, RunnerType
<1>5. runner[r].pc \in Gone /\ runner'[r].pc \in HostPhases
  BY <1>3, <1>4 DEF Gone, HostPhases, Phases
<1>6. \A g \in Own : Returns(runner[r], g) => Returns(runner[r], g)'
  BY <1>2, <1>3, <1>4 DEF Returns
<1>7. QED
  BY <1>1, <1>2, <1>3, <1>4, <1>5, <1>6, OnwardHome DEF Stay

\* Every guest of ours on the host is planned to leave it.
LEMMA PlanHome ==
  ASSUME TypeInv, SweepInv, LoopInv, AllKnow, HomeInv, "stale" \notin Faults,
         NEW r \in Runners, PlanEvacuation(r)
  PROVE  HomeInv'
<1>1. HostMove(r) /\ runner[r] \in RunnerType
  BY HostStepMoves, HostMoveFacts DEF HostStep
<1> DEFINE leaving == VmsOnNode(Host(r)) \ (IF InPlace(r) THEN {} ELSE runner[r].has)
<1>2. PICK place \in [leaving -> IF InPlace(r) THEN {NoNode} ELSE runner[r].targets] :
        runner' = [runner EXCEPT ![r].pc = "moving", ![r].pending = leaving,
                     ![r].plan = [g \in Guests |-> IF g \in leaving THEN place[g] ELSE NoNode]]
  BY DEF PlanEvacuation
<1>3. /\ runner[r].pc = "evacuate" /\ UNCHANGED <<where, on>>
  BY DEF PlanEvacuation, At, placing
<1>4. /\ runner'[r].pc = "moving" /\ runner'[r].moved = runner[r].moved
      /\ runner'[r].pending = leaving /\ runner'[r].host = runner[r].host
      /\ runner'[r].plan = [g \in Guests |-> IF g \in leaving THEN place[g] ELSE NoNode]
  BY <1>1, <1>2 DEF TypeInv, TypeOK, RunnerType
<1>5. leaving \subseteq Guests
  BY DEF VmsOnNode, TypeInv, TypeOK
<1>6. ~InPlace(r) => \A g \in runner'[r].pending : runner'[r].plan[g] # NoNode
  <2>1. runner[r].targets \subseteq Nodes
    BY <1>1 DEF RunnerType
  <2>2. QED
    BY <1>2, <1>4, <1>5, <2>1, ConstantsOK
<1>7. ASSUME NEW g \in Own, g \in on, Returns(runner[r], g)
      PROVE  Returns(runner[r], g)'
  <2>1. where[g] = Host(r)
    BY <1>3, <1>7 DEF Returns, Host
  <2>2. g \in leaving
    BY <1>7, <2>1 DEF VmsOnNode, AllKnow, Knows, Own, TypeInv, TypeOK
  <2>3. QED
    BY <1>3, <1>4, <2>1, <2>2 DEF Returns, Host
<1>8. runner[r].pc \in Gone /\ runner'[r].pc \in HostPhases
  BY <1>3, <1>4 DEF Gone, HostPhases, Phases
<1> HIDE DEF leaving
<1>9. QED
  BY <1>1, <1>3, <1>4, <1>6, <1>7, <1>8, OnwardHome DEF Stay

\* The host is left; its guests are brought back, started again, or left away.
LEMMA LeaveHome ==
  ASSUME TypeInv, SweepInv, LoopInv, HomeInv, NEW r \in Runners, LeaveMaintenance(r)
  PROVE  HomeInv'
<1>1. HostMove(r) /\ runner[r] \in RunnerType /\ JobOf(r) \in Jobs
  BY HostStepMoves, HostMoveFacts DEF HostStep
<1>2. /\ runner[r].pc = "leave_maint" /\ UNCHANGED <<where, on>>
      /\ runner'[r].moved = runner[r].moved /\ runner'[r].plan = runner[r].plan
      /\ runner'[r].pc = AfterReboot(r).pc /\ runner'[r].pending = AfterReboot(r).pending
  BY <1>1 DEF LeaveMaintenance, At, placing, TypeInv, TypeOK, RunnerType
<1>3. \/ InPlace(r) /\ runner'[r].pc = "starting"
      \/ Opt(r).back /\ runner'[r].pc = "restoring" /\ runner'[r].pending = runner[r].moved
      \/ ~Opt(r).back /\ runner'[r].pc = "ceph"
  BY <1>2 DEF AfterReboot
<1>4. InPlace(r) => ~Opt(r).back
  BY <1>1 DEF HomeInv, InPlace, Opt
<1>5. \A g \in Own : Opt(r).back /\ Returns(runner[r], g) => Returns(runner[r], g)'
  BY <1>2, <1>3, <1>4 DEF Returns
<1>6. runner[r].pc \in Gone /\ runner'[r].pc \in HostPhases
  BY <1>2, <1>3 DEF Gone, HostPhases, Phases
<1>7. QED
  BY <1>1, <1>2, <1>3, <1>5, <1>6, OnwardHome DEF Stay

\* Guests that were shut down in place are started again.
LEMMA StartsHome ==
  ASSUME TypeInv, SweepInv, LoopInv, AllKnow, HomeInv, NEW r \in Runners,
         GuestsStarted(r) \/ (EvacuationFails(r) /\ InPlace(r))
  PROVE  HomeInv'
<1>1. HostMove(r) /\ runner[r] \in RunnerType /\ JobOf(r) \in Jobs
  BY HostStepMoves, HostMoveFacts DEF HostStep
<1>2. /\ runner[r].pc \in {"starting", "moving"} /\ UNCHANGED <<where, on>>
      /\ runner'[r].moved = runner[r].moved
      /\ runner'[r].pc \in {"starting", "ceph", "cleanup"}
      /\ runner'[r].pc = "cleanup" => UNCHANGED rows
  BY <1>1 DEF GuestsStarted, EvacuationFails, Goto, At, placing, db, TypeInv, TypeOK, RunnerType
<1>3. InPlace(r)
  BY <1>2 DEF AllKnow, Knows, GuestsStarted, EvacuationFails, At
<1>4. ~Opt(r).back
  BY <1>1, <1>3 DEF HomeInv, InPlace, Opt
<1>5. CASE runner'[r].pc = "cleanup"
  BY <1>1, <1>2, <1>5, LeavesHome DEF Stay
<1>6. CASE runner'[r].pc \in {"starting", "ceph"}
  <2>1. runner[r].pc \in Gone /\ runner'[r].pc \in HostPhases
    BY <1>2, <1>6 DEF Gone, HostPhases, Phases
  <2>2. QED
    BY <1>1, <1>2, <1>4, <1>6, <2>1, OnwardHome DEF Stay
<1>7. QED
  BY <1>2, <1>5, <1>6

LEMMA HostStepHome ==
  ASSUME TypeInv, SweepInv, LoopInv, AllKnow, HomeInv, "stale" \notin Faults,
         NEW r \in Runners, HostStep(r)
  PROVE  HomeInv'
BY FailsHome, EarlyHome, EvacuateHome, DoneHome, AwayStepsHome, PlanHome, LeaveHome, StartsHome
   DEF HostStep

\* Guests that are started, or stay behind.
LEMMA StillHome ==
  ASSUME TypeInv, SweepInv, LoopInv, AllKnow, HomeInv, NEW r \in Runners, NEW g \in Guests,
         StartGuest(r, g) \/ MoveGuestFails(r, g) \/ RestoreGuestFails(r, g)
  PROVE  HomeInv'
<1>1. HostMove(r) /\ runner[r] \in RunnerType /\ JobOf(r) \in Jobs
  BY GuestStepMoves, HostMoveFacts DEF GuestStep
<1>2. /\ runner[r].pc \in {"starting", "moving", "restoring"} /\ UNCHANGED where /\ on \subseteq on'
  BY DEF StartGuest, MoveGuestFails, RestoreGuestFails, At
<1>8. \E bad \in BOOLEAN :
        /\ runner' = [runner EXCEPT ![r] = [runner[r] EXCEPT !.pending = runner[r].pending \ {g},
                                              !.moved = runner[r].moved, !.bad = bad]]
        /\ runner[r].pc = "starting" \/ bad
  <2>1. CASE StartGuest(r, g)
    BY <1>1, <2>1 DEF StartGuest, At, TypeInv, TypeOK, RunnerType
  <2>2. CASE MoveGuestFails(r, g)
    <3>1. runner' = [runner EXCEPT ![r] = [runner[r] EXCEPT !.pending = runner[r].pending \ {g},
                                              !.moved = runner[r].moved, !.bad = TRUE]]
      BY <1>1, <2>2 DEF MoveGuestFails, Handled, TypeInv, TypeOK, RunnerType
    <3>2. QED
      BY <3>1
  <2>3. CASE RestoreGuestFails(r, g)
    BY <1>1, <2>3 DEF RestoreGuestFails, TypeInv, TypeOK, RunnerType
  <2>4. QED
    BY <2>1, <2>2, <2>3
<1>9. /\ runner'[r].moved = runner[r].moved /\ runner'[r].plan = runner[r].plan
      /\ runner'[r].pc = runner[r].pc /\ runner'[r].pending \subseteq runner[r].pending
      /\ runner[r].pc \in {"moving", "restoring"} => runner'[r].bad
  BY <1>1, <1>8 DEF TypeInv, TypeOK, RunnerType
<1>3. \A h \in Own : Returns(runner[r], h)'
  BY <1>2, <1>9 DEF Returns
<1>4. runner[r].pc \in Gone /\ runner'[r].pc \in HostPhases
  BY <1>2, <1>9 DEF Gone, HostPhases, Phases
<1>5. /\ runner[r].pc = "restoring" => runner[r].pending \subseteq runner[r].moved
      /\ runner[r].pc = "moving" /\ ~InPlace(r) => \A h \in runner[r].pending : runner[r].plan[h] # NoNode
  BY <1>4 DEF HomeInv, OnTrack
<1>6. Stay
  BY <1>2, <1>9 DEF Stay
<1>7. QED
  BY <1>1, <1>2, <1>9, <1>3, <1>4, <1>5, <1>6, OnwardHome

\* A guest leaves the host, or returns to it.
LEMMA GuestMovesHome ==
  ASSUME TypeInv, SweepInv, LoopInv, AllKnow, HomeInv, NEW r \in Runners, NEW g \in Guests,
         MoveGuest(r, g) \/ RestoreGuest(r, g)
  PROVE  HomeInv'
<1> DEFINE j == JobOf(r)
           h == Host(r)
           x == runner[r]
           y == runner'[r]
<1>1. /\ HostMove(r) /\ x \in RunnerType /\ j \in Jobs /\ h \in Nodes
      /\ Others(r) /\ \A other \in Runners \ {r} : ~Live(other)
      /\ UNCHANGED opts /\ Host(r)' = h /\ Opt(r)' = Opt(r) /\ InPlace(r)' = InPlace(r) /\ JobOf(r)' = j
  BY GuestStepMoves, HostMoveFacts DEF GuestStep, JobOf
<1>2. /\ x.pc \in {"moving", "restoring"} /\ y.pc = x.pc /\ g \in x.pending
      /\ y.pending = x.pending \ {g} /\ y.plan = x.plan /\ y.bad = x.bad /\ y.host = x.host
      /\ y.moved = IF x.pc = "moving" THEN x.moved \cup {g} ELSE x.moved
      /\ UNCHANGED rows
  <2>1. CASE MoveGuest(r, g)
    <3>1. runner' = [runner EXCEPT ![r] = [runner[r] EXCEPT !.pending = runner[r].pending \ {g},
                                              !.moved = runner[r].moved \cup {g},
                                              !.bad = runner[r].bad]]
      BY <1>1, <2>1 DEF MoveGuest, Handled, RunnerType, TypeInv, TypeOK
    <3>2. QED
      BY <1>1, <2>1, <3>1 DEF MoveGuest, At, RunnerType, TypeInv, TypeOK, db
  <2>2. CASE RestoreGuest(r, g)
    BY <1>1, <2>2 DEF RestoreGuest, At, RunnerType, TypeInv, TypeOK, db
  <2>3. QED
    BY <2>1, <2>2
<1>3. /\ where[g] = IF x.pc = "moving" THEN h ELSE x.plan[g]
      /\ \A o \in Guests \ {g} : where'[o] = where[o] /\ (o \in on => o \in on')
      /\ x.plan[g] # NoNode \/ x.pc = "restoring" =>
            where'[g] = (IF x.pc = "moving" THEN x.plan[g] ELSE h) /\ (g \in on => g \in on')
  BY <1>2 DEF MoveGuest, RestoreGuest, CanLeave, GuestLeaves, At, Host, TypeInv, TypeOK
<1>4. x.pc \in Gone /\ y.pc \in HostPhases /\ OnTrack(r)
  BY <1>2 DEF Gone, HostPhases, Phases, HomeInv
<1>5. NoGain
  BY <1>1, <1>4, MoveGainsNothing
<1>6. ~Keeps(h)
  <2>1. rows[j][h] \in {"evacuating", "restoring"}
    BY <1>1, <1>2, HostMoveFacts DEF Fits
  <2>2. QED
    BY <1>1, <2>1 DEF Keeps, Alone, Unmoved
<1>7. \A o \in Own : Home[o] \in Nodes
  BY ConstantsOK DEF Own
\* A guest with its home elsewhere is brought back to h only where its home may
\* be without it.
<1>8. ASSUME g \in Own
      PROVE  ~Keeps(Home[g])
  <2>1. CASE Home[g] = h
    BY <1>6, <2>1
  <2>2. CASE Home[g] # h /\ x.pc = "moving"
    BY <1>3, <1>8, <2>2 DEF HomeInv, AtHome
  <2>3. CASE Home[g] # h /\ x.pc = "restoring"
    <3>1. g \in Own \cap x.moved
      BY <1>2, <1>4, <1>8, <2>3 DEF OnTrack
    <3>2. QED
      BY <1>4, <2>3, <3>1 DEF OnTrack
  <2>4. QED
    BY <1>2, <2>1, <2>2, <2>3
<1>9. ASSUME NEW o \in Own, Keeps(Home[o])'
      PROVE  AtHome(o)'
  <2>1. Keeps(Home[o])
    BY <1>5, <1>7, <1>9 DEF NoGain
  <2>2. o # g
    BY <1>8, <2>1
  <2>3. AtHome(o)
    BY <2>1 DEF HomeInv
  <2>4. QED
    BY <1>3, <2>2, <2>3 DEF AtHome, Own
<1>10. OnTrack(r)'
  <2>1. ASSUME NEW o \in Own, Home[o] = h, Opt(r).back, Alone(j, h)'
        PROVE  o \in on' /\ Returns(runner[r], o)'
    <3>1. o \in on /\ Returns(x, o)
      <4>1. Alone(j, h)
        BY <1>1, <1>5, <2>1 DEF NoGain
      <4>2. QED
        BY <1>4, <2>1, <4>1 DEF OnTrack
    <3>2. CASE o # g
      <4>1. where'[o] = where[o] /\ o \in on'
        BY <1>3, <3>1, <3>2 DEF Own
      <4>2. QED
        BY <1>2, <3>1, <3>2, <4>1 DEF Returns
    <3>3. CASE o = g
      <4>1. x.pc = "moving" => x.plan[g] # NoNode
        <5>1. ~InPlace(r)
          BY <1>1, <2>1 DEF HomeInv, InPlace, Opt
        <5>2. QED
          BY <1>2, <1>4, <5>1 DEF OnTrack
      <4>2. where'[g] = (IF x.pc = "moving" THEN x.plan[g] ELSE h) /\ g \in on'
        BY <1>2, <1>3, <3>1, <3>3, <4>1
      <4>3. QED
        BY <1>2, <3>3, <4>2 DEF Returns, Host
    <3>4. QED
      BY <3>2, <3>3
  <2>2. ASSUME NEW o \in Own \cap y.moved, Home[o] # h
        PROVE  ~Keeps(Home[o])'
    <3>1. ~Keeps(Home[o])
      <4>1. CASE o = g
        BY <1>8, <4>1
      <4>2. CASE o # g
        BY <1>2, <1>4, <2>2, <4>2 DEF OnTrack
      <4>3. QED
        BY <4>1, <4>2
    <3>2. QED
      BY <1>5, <1>7, <3>1 DEF NoGain
  <2>3. /\ y.pc = "restoring" => y.pending \subseteq y.moved
        /\ y.pc = "moving" /\ ~InPlace(r) => \A o \in y.pending : y.plan[o] # NoNode
    BY <1>2, <1>4 DEF OnTrack
  <2>4. QED
    BY <1>1, <2>1, <2>2, <2>3 DEF OnTrack
<1>11. QED
  BY <1>1, <1>9, <1>10, OneHome

LEMMA GuestStepHome ==
  ASSUME TypeInv, SweepInv, LoopInv, AllKnow, HomeInv, NEW r \in Runners, NEW g \in Guests,
         GuestStep(r, g)
  PROVE  HomeInv'
BY StillHome, GuestMovesHome DEF GuestStep

LEMMA HomeInit == Init => HomeInv
<1> SUFFICES ASSUME Init
             PROVE  HomeInv
  OBVIOUS
<1>1. \A g \in Own : where[g] = Home[g] /\ g \in on
  BY DEF Init, Own
<1>2. \A j \in Jobs : opts[j] = NoOption
  BY DEF Init
<1>3. \A r \in Runners : runner[r].pc = "idle"
  BY DEF Init, IdleRunner, Fresh
<1>4. QED
  BY <1>1, <1>2, <1>3 DEF HomeInv, AtHome, OnTrack, Gone, HostPhases, NoOption

LEMMA HomeNext ==
  ASSUME TypeInv, SweepInv, LoopInv, EmptyInv, HomeInv, "stale" \notin Faults, [Next]_vars
  PROVE  HomeInv'
<1>1. CASE UNCHANGED vars
  BY <1>1, RowsKept, AsideHome DEF vars, db, placing, Stay
<1>2. ASSUME NEW r \in Runners, RunnerStep(r)
      PROVE  HomeInv'
  BY <1>2, SweepStepHome, HostStepHome, GuestStepHome DEF RunnerStep, EmptyInv
<1>3. QED
  BY <1>1, <1>2, AdminHome, EnvironmentHome, RestartHome, SpawnHome, RaiseHome DEF Next

\* A host called done or skipped, in a job that migrates back and is the only one
\* to have taken guests off it, has every guest of its own back and running,
\* through aborts, exceptions and restarts (_evacuate_node, _restore_node and
\* the row _run_single_host ends with), where the cache does not lag, tasks do
\* not outlive their timeout, nodes stop answering when they are told to reboot
\* and starts do not race.
THEOREM DoneIsHome ==
  ASSUME {"stale", "late", "slowdown", "race"} \cap Faults = {}
  PROVE  Spec => []DoneMeansHome
<1> DEFINE Inv == /\ TypeInv /\ SweepInv /\ LoopInv /\ DutyPhases /\ BackOnlineMeansUp
                  /\ EmptyInv /\ HomeInv
<1>0. "race" \notin Faults /\ "slowdown" \notin Faults /\ {"stale", "late"} \cap Faults = {}
      /\ "stale" \notin Faults
  OBVIOUS
<1>1. Init => Inv
  BY TypeInit, SweepInit, LoopInit, DutyInit, EmptyInit, HomeInit
<1>2. Inv /\ [Next]_vars => Inv'
  BY <1>0, TypeNext, SweepNext, LoopNext, DutyNext, BackNext, EmptyNext, HomeNext
<1>3. Inv => DoneMeansHome
  BY DEF DoneMeansHome, HomeInv, Keeps, AtHome, Own
<1>4. QED
  BY <1>1, <1>2, <1>3, PTL DEF Spec
=============================================================================
