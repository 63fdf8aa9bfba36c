--------------------------- MODULE PoolJobsProofs ---------------------------
(***************************************************************************)
(* For any number of jobs, restarts and faults and any limit of misses:    *)
(* the pool has one watcher, a row that says running is being seen to, or  *)
(* it is known why not, and a row that says done is of a job during which  *)
(* a scan ran.                                                             *)
(***************************************************************************)
EXTENDS PoolJobs, TLAPS

\* A request that is under way has a job that nothing watches, and a row for it
\* from CreateRow on.
RequestKnows ==
  /\ req.stage = "idle" => req.job = NoJob
  /\ req.stage # "idle" => watch[req.job] = "none"
  /\ req.stage = "row" \/ (req.stage = "command" /\ req.kind = "scrub") => row[req.job] = "none"
  /\ req.stage \in {"spawn", "fail"} \/ (req.stage = "command" /\ req.kind = "replace") =>
       row[req.job] # "none"

\* A watcher has a row, has seen the scan run only if one did, and says done only then.
WatchKnows ==
  \A j \in Jobs :
    /\ watch[j] # "none" => row[j] # "none"
    /\ watch[j] \in {"none", "over"} => misses[j] = 0 /\ j \notin started
    /\ watch[j] = "polling" => misses[j] < MissLimit /\ (j \in started => j \in ran)
    /\ watch[j] \in {"finishing", "retrying"} /\ verdict[j] = "done" => j \in ran

\* A row that is there while the scan runs is a witness of it.
ScanKnown == scan = "running" => \A j \in Jobs : row[j] # "none" => j \in ran

Parts ==
  /\ TypeOK /\ RequestKnows /\ WatchKnows /\ ScanKnown
  /\ OneWatcher /\ RunningIsHeld /\ DoneMeansRan

-----------------------------------------------------------------------------
LEMMA InitParts == Init => Parts
<1> SUFFICES ASSUME Init
             PROVE  Parts
  OBVIOUS
<1>1. TypeOK
  <2>1. 0 \in 0..MissLimit /\ 0 \in 0..MaxRestarts /\ 0 \in 0..MaxFaults
    BY PoolAssumption
  <2>2. QED
    BY <2>1 DEF Init, TypeOK, Idle, Statuses, Stages, Scans
<1>2. RequestKnows /\ WatchKnows /\ ScanKnown /\ OneWatcher /\ RunningIsHeld /\ DoneMeansRan
  BY DEF Init, Idle, RequestKnows, WatchKnows, ScanKnown, OneWatcher, Watching, RunningIsHeld,
         DoneMeansRan
<1>3. QED
  BY <1>1, <1>2 DEF Parts

\* A fault is counted.
LEMMA FaultTyped == TypeOK /\ (Fault \/ UNCHANGED faults) => faults' \in 0..MaxFaults
BY PoolAssumption DEF TypeOK, Fault

\* The request that holds the lock: only SpawnWatch makes a watcher, and only of a job
\* that has none.
LEMMA RequestParts ==
  ASSUME Parts, Request \/ \E j \in Jobs, kind \in {"scrub", "replace"} : Ask(j, kind)
  PROVE  Parts'
<1> USE PoolAssumption DEF Parts
<1>1. CASE \E j \in Jobs, kind \in {"scrub", "replace"} : Ask(j, kind)
  <2>1. PICK j \in Jobs, kind \in {"scrub", "replace"} : Ask(j, kind)
    BY <1>1
  <2>2. /\ row[j] = "none" /\ req.stage = "idle"
        /\ req' = [stage |-> IF kind = "replace" THEN "row" ELSE "command", job |-> j, kind |-> kind]
        /\ UNCHANGED <<row, watch, verdict, started, misses, watcher, swept, scan, accepted, ran,
                       unwatched, lost, restarts, faults>>
    BY <2>1 DEF Ask, pool, history
  <2>3. TypeOK'
    BY <2>2 DEF TypeOK
  <2>4. RequestKnows'
    BY <2>2 DEF RequestKnows, WatchKnows
  <2>5. RunningIsHeld'
    BY <2>2 DEF RunningIsHeld, RequestKnows, Watching
  <2>6. WatchKnows' /\ ScanKnown' /\ OneWatcher' /\ DoneMeansRan'
    BY <2>2 DEF WatchKnows, ScanKnown, OneWatcher, DoneMeansRan, Watching
  <2>7. QED
    BY <2>3, <2>4, <2>5, <2>6
<1>2. CASE CreateRow
  <2>1. req.job \in Jobs /\ row[req.job] = "none" /\ watch[req.job] = "none"
    BY <1>2 DEF CreateRow, RequestKnows, TypeOK
  <2>2. /\ row' = [row EXCEPT ![req.job] = "running"]
        /\ req' = [req EXCEPT !.stage = IF req.kind = "replace" THEN "command" ELSE "spawn"]
        /\ ran' = ran \cup Witnesses(scan, row')
        /\ UNCHANGED <<watch, verdict, started, misses, watcher, swept, scan, accepted,
                       unwatched, lost, restarts, faults>>
    BY <1>2 DEF CreateRow, pool
  <2>3. TypeOK'
    BY <2>1, <2>2 DEF TypeOK, Statuses, Witnesses
  <2>4. RequestKnows'
    BY <2>1, <2>2 DEF RequestKnows, TypeOK
  <2>5. RunningIsHeld' /\ OneWatcher' /\ DoneMeansRan'
    BY <2>1, <2>2 DEF RunningIsHeld, TypeOK, Watching, OneWatcher, DoneMeansRan
  <2>6. WatchKnows'
    BY <2>1, <2>2 DEF WatchKnows, TypeOK
  <2>7. ScanKnown'
    BY <2>1, <2>2 DEF ScanKnown, Witnesses
  <2>8. QED
    BY <2>3, <2>4, <2>5, <2>6, <2>7
<1>3. CASE CreateRefused \/ FailRefused \/ Command \/ CommandFails
  <2>1. /\ UNCHANGED <<row, watch, verdict, started, misses, watcher, swept, scan, ran, unwatched, restarts>>
        /\ accepted' \in BOOLEAN /\ (Fault \/ UNCHANGED faults)
        /\ lost' \subseteq Jobs /\ lost \subseteq lost'
        /\ req.stage # "idle" /\ req.job \in Jobs
    BY <1>3 DEF CreateRefused, FailRefused, Command, CommandFails, pool, history, TypeOK
  <2>2. \/ req' = [req EXCEPT !.stage = "spawn"] /\ req.stage = "command" /\ req.kind = "replace"
        \/ req' = [req EXCEPT !.stage = "row"] /\ req.stage = "command" /\ req.kind = "scrub"
        \/ req' = [req EXCEPT !.stage = "fail"] /\ req.stage = "command" /\ req.kind = "replace"
        \/ req' = Idle /\ (row[req.job] = "none" \/ req.job \in lost')
    BY <1>3 DEF CreateRefused, FailRefused, Command, CommandFails, TypeOK, RequestKnows
  <2>3. TypeOK' /\ RequestKnows'
    BY <2>1, <2>2, FaultTyped DEF TypeOK, RequestKnows, Idle
  <2>4. RunningIsHeld'
    BY <2>1, <2>2 DEF RunningIsHeld, Watching, TypeOK
  <2>5. WatchKnows' /\ ScanKnown' /\ OneWatcher' /\ DoneMeansRan'
    BY <2>1 DEF WatchKnows, ScanKnown, OneWatcher, DoneMeansRan, Watching
  <2>6. QED
    BY <2>3, <2>4, <2>5
<1>4. CASE FailRow
  <2>1. /\ req.job \in Jobs /\ row[req.job] # "none" /\ req' = Idle
        /\ row' = [row EXCEPT ![req.job] = "failed"]
        /\ UNCHANGED <<watch, verdict, started, misses, watcher, swept, scan, accepted, ran,
                       unwatched, lost, restarts, faults>>
    BY <1>4 DEF FailRow, pool, history, TypeOK, RequestKnows
  <2>2. TypeOK' /\ RequestKnows'
    BY <2>1 DEF TypeOK, RequestKnows, Idle, Statuses
  <2>3. WatchKnows' /\ ScanKnown' /\ OneWatcher' /\ DoneMeansRan' /\ RunningIsHeld'
    BY <2>1 DEF WatchKnows, ScanKnown, OneWatcher, DoneMeansRan, RunningIsHeld, Watching, TypeOK
  <2>4. QED
    BY <2>2, <2>3
<1>5. CASE SpawnWatch
  <2>1. /\ req.job \in Jobs /\ row[req.job] # "none" /\ watch[req.job] = "none" /\ req' = Idle
        /\ UNCHANGED <<row, verdict, started, misses, swept, scan, accepted, ran, lost, restarts, faults>>
    BY <1>5 DEF SpawnWatch, pool, TypeOK, RequestKnows
  <2>2. CASE HasWatcher
    <3>1. unwatched' = unwatched \cup {req.job} /\ UNCHANGED <<watch, watcher>>
      BY <1>5, <2>2 DEF SpawnWatch
    <3>2. TypeOK' /\ RequestKnows'
      BY <2>1, <3>1 DEF TypeOK, RequestKnows, Idle
    <3>3. WatchKnows' /\ ScanKnown' /\ OneWatcher' /\ DoneMeansRan' /\ RunningIsHeld'
      BY <2>1, <3>1 DEF WatchKnows, ScanKnown, OneWatcher, DoneMeansRan, RunningIsHeld, Watching, TypeOK
    <3>4. QED
      BY <3>2, <3>3
  \* A watcher that is not over has the place, so that it is free where none is.
  <2>3. CASE ~HasWatcher
    <3>1. /\ watcher' = req.job /\ watch' = [watch EXCEPT ![req.job] = "polling"]
          /\ UNCHANGED unwatched
      BY <1>5, <2>3 DEF SpawnWatch
    <3>2. TypeOK' /\ RequestKnows'
      BY <2>1, <3>1 DEF TypeOK, RequestKnows, Idle, Stages
    <3>3. \A j \in Jobs : ~Watching(j)
      BY <2>3 DEF HasWatcher, OneWatcher, Watching
    <3>4. OneWatcher'
      BY <2>1, <3>1, <3>3 DEF OneWatcher, Watching, TypeOK
    <3>5. WatchKnows'
      BY <2>1, <3>1 DEF WatchKnows, TypeOK
    <3>6. ScanKnown' /\ DoneMeansRan' /\ RunningIsHeld'
      BY <2>1, <3>1 DEF ScanKnown, DoneMeansRan, RunningIsHeld, Watching, TypeOK
    <3>7. QED
      BY <3>2, <3>4, <3>5, <3>6
  <2>4. QED
    BY <2>2, <2>3
<1>6. QED
  BY <1>1, <1>2, <1>3, <1>4, <1>5 DEF Request

\* The pool moves by itself; jobs that are there when its scan runs are witnesses.
LEMMA ScanParts ==
  ASSUME Parts, StopOrPause \/ Register \/ NothingToScan \/ ScanEnds \/ Export \/ Import
  PROVE  Parts'
<1> USE DEF Parts
<1>1. /\ UNCHANGED <<row, watch, verdict, started, misses, watcher, req, swept, unwatched, lost, restarts>>
      /\ ran' = IF Register \/ Import THEN ran \cup Witnesses(scan', row) ELSE ran
      /\ scan' = "running" => Register \/ Import \/ scan = "running"
  BY DEF StopOrPause, Register, NothingToScan, ScanEnds, Export, Import, server, history
<1>2. scan' \in Scans /\ accepted' \in BOOLEAN /\ faults' \in 0..MaxFaults
  <2>1. scan' \in Scans /\ accepted' \in BOOLEAN
    BY DEF StopOrPause, Register, NothingToScan, ScanEnds, Export, Import, TypeOK, Scans
  <2>2. Fault \/ UNCHANGED faults
    BY DEF StopOrPause, Register, NothingToScan, ScanEnds, Export, Import
  <2>3. QED
    BY <2>1, <2>2, FaultTyped
<1>3. TypeOK'
  BY <1>1, <1>2 DEF TypeOK, Witnesses
<1>4. ScanKnown'
  BY <1>1 DEF ScanKnown, Witnesses
<1>5. ran \subseteq ran'
  BY <1>1
<1>6. WatchKnows' /\ DoneMeansRan'
  BY <1>1, <1>5 DEF WatchKnows, DoneMeansRan
<1>7. RequestKnows' /\ OneWatcher' /\ RunningIsHeld'
  BY <1>1 DEF RequestKnows, OneWatcher, RunningIsHeld, Watching
<1>8. QED
  BY <1>3, <1>4, <1>6, <1>7

\* A reading decides on "done" only where the scan was seen to run.
LEMMA ReadingParts ==
  ASSUME Parts, NEW j \in Jobs, Reading(j) \/ Overdue(j)
  PROVE  Parts'
<1> USE PoolAssumption DEF Parts
<1>1. /\ watch[j] = "polling"
      /\ UNCHANGED <<row, watcher, req, swept, scan, accepted, ran, unwatched, lost, restarts, faults>>
  BY DEF Reading, Poll, PollFails, Overdue, pool, history
<1>2. \E w \in {"polling", "finishing"}, v \in Statuses \ {"none", "running", "orphaned"} :
        /\ watch' = [watch EXCEPT ![j] = w] /\ verdict' = [verdict EXCEPT ![j] = v]
        /\ v = "done" => w = "polling" \/ j \in ran
        /\ started' \in {started, started \cup {j}}
        /\ w = "polling" /\ j \in started' => j \in ran
        /\ \E m \in 0..MissLimit :
             /\ misses' = [misses EXCEPT ![j] = m]
             /\ w = "polling" => m < MissLimit
  <2>1. watch = [watch EXCEPT ![j] = "polling"] /\ verdict = [verdict EXCEPT ![j] = verdict[j]]
        /\ misses = [misses EXCEPT ![j] = misses[j]] /\ misses[j] \in 0..MissLimit
        /\ misses[j] < MissLimit /\ (j \in started => j \in ran) /\ MissLimit \in Nat /\ 0 < MissLimit
        /\ verdict[j] \in Statuses \ {"none", "running", "orphaned"}
    BY <1>1 DEF TypeOK, WatchKnows
  <2>2. CASE Poll(j) /\ Verdicts(j) = {}
    <3>1. /\ UNCHANGED <<watch, verdict>> /\ misses' = [misses EXCEPT ![j] = 0]
          /\ started' = IF scan \in {"running", "paused"} THEN started \cup {j} ELSE started
      BY <2>2 DEF Poll
    <3>2. scan # "paused"
      BY <2>2 DEF Verdicts
    <3>3. j \in started' => j \in ran
      BY <1>1, <2>1, <3>1, <3>2 DEF ScanKnown, WatchKnows
    <3>4. 0 \in 0..MissLimit
      BY <2>1
    <3>5. QED
      BY <2>1, <2>2, <3>1, <3>3, <3>4
  <2>3. CASE Poll(j) /\ Verdicts(j) # {}
    <3>1. PICK v \in Verdicts(j) :
            /\ watch' = [watch EXCEPT ![j] = "finishing"] /\ verdict' = [verdict EXCEPT ![j] = v]
            /\ misses' = [misses EXCEPT ![j] = 0]
            /\ started' = IF scan \in {"running", "paused"} THEN started \cup {j} ELSE started
      BY <2>3 DEF Poll
    <3>2. v \in Statuses \ {"none", "running", "orphaned"} /\ (v = "done" => j \in started)
      BY DEF Verdicts, Statuses
    <3>3. 0 \in 0..MissLimit
      BY <2>1
    <3>4. QED
      BY <2>1, <2>3, <3>1, <3>2, <3>3
  <2>4. CASE PollFails(j)
    <3>1. /\ misses' = [misses EXCEPT ![j] = misses[j] + 1] /\ misses[j] + 1 \in 0..MissLimit
          /\ misses'[j] = misses[j] + 1 /\ UNCHANGED started
      BY <2>1, <2>4 DEF PollFails, TypeOK
    <3>2. CASE misses[j] + 1 < MissLimit
      <4>1. UNCHANGED <<watch, verdict>>
        BY <2>4, <3>1, <3>2 DEF PollFails
      <4>2. QED
        BY <2>1, <3>1, <3>2, <4>1
    <3>3. CASE ~(misses[j] + 1 < MissLimit)
      <4>1. watch' = [watch EXCEPT ![j] = "finishing"] /\ verdict' = [verdict EXCEPT ![j] = "warning"]
        BY <2>4, <3>1, <3>3 DEF PollFails
      <4>2. "warning" \in Statuses \ {"none", "running", "orphaned"}
        BY DEF Statuses
      <4>3. QED
        BY <2>1, <3>1, <4>1, <4>2
    <3>4. QED
      BY <3>2, <3>3
  <2>5. CASE Overdue(j)
    <3>1. /\ watch' = [watch EXCEPT ![j] = "finishing"] /\ verdict' = [verdict EXCEPT ![j] = "warning"]
          /\ UNCHANGED <<started, misses>>
      BY <2>5 DEF Overdue
    <3>2. "warning" \in Statuses \ {"none", "running", "orphaned"}
      BY DEF Statuses
    <3>3. QED
      BY <2>1, <3>1, <3>2
  <2>6. QED
    BY <2>2, <2>3, <2>4, <2>5 DEF Reading
<1>3. PICK w \in {"polling", "finishing"}, v \in Statuses \ {"none", "running", "orphaned"}, m \in 0..MissLimit :
        /\ watch' = [watch EXCEPT ![j] = w] /\ verdict' = [verdict EXCEPT ![j] = v]
        /\ v = "done" => w = "polling" \/ j \in ran
        /\ started' \in {started, started \cup {j}}
        /\ w = "polling" /\ j \in started' => j \in ran
        /\ misses' = [misses EXCEPT ![j] = m]
        /\ w = "polling" => m < MissLimit
  BY <1>2
<1>4. TypeOK'
  BY <1>1, <1>3 DEF TypeOK, Stages
<1>5. RequestKnows'
  BY <1>1, <1>3 DEF RequestKnows, TypeOK
<1>6. WatchKnows'
  BY <1>1, <1>3 DEF WatchKnows, TypeOK
<1>7. ScanKnown' /\ OneWatcher' /\ RunningIsHeld' /\ DoneMeansRan'
  BY <1>1, <1>3 DEF ScanKnown, OneWatcher, RunningIsHeld, DoneMeansRan, Watching, TypeOK
<1>8. QED
  BY <1>4, <1>5, <1>6, <1>7

\* A watcher writes what it decided, or its update is lost, and its place is emptied.
LEMMA EndingParts ==
  ASSUME Parts, NEW j \in Jobs, Ending(j)
  PROVE  Parts'
<1> USE PoolAssumption DEF Parts
<1>0. 0 \in 0..MissLimit /\ verdict[j] \in Statuses \ {"none", "running", "orphaned"}
      /\ "warning" \in Statuses \ {"none", "running", "orphaned"}
      /\ {"none", "retrying", "over"} \subseteq Stages
  BY DEF TypeOK, Statuses, Stages
<1>1. CASE Finish(j)
  <2>1. /\ watch[j] \in {"finishing", "retrying"}
        /\ row' = [row EXCEPT ![j] = verdict[j]] /\ watch' = [watch EXCEPT ![j] = "over"]
        /\ verdict' = [verdict EXCEPT ![j] = "warning"]
        /\ started' = started \ {j} /\ misses' = [misses EXCEPT ![j] = 0]
        /\ UNCHANGED <<watcher, req, swept, scan, accepted, ran, unwatched, lost, restarts, faults>>
    BY <1>1 DEF Finish, Over, pool, history
  <2>2. TypeOK'
    BY <1>0, <2>1 DEF TypeOK
  <2>3. RequestKnows'
    BY <1>0, <2>1 DEF RequestKnows, TypeOK
  <2>4. WatchKnows'
    BY <1>0, <2>1 DEF WatchKnows, TypeOK
  <2>5. ScanKnown' /\ DoneMeansRan'
    BY <1>0, <2>1 DEF WatchKnows, ScanKnown, DoneMeansRan, TypeOK
  <2>6. OneWatcher' /\ RunningIsHeld'
    BY <1>0, <2>1 DEF OneWatcher, RunningIsHeld, Watching, TypeOK
  <2>7. QED
    BY <2>2, <2>3, <2>4, <2>5, <2>6
<1>2. CASE FinishRefused(j)
  <2>1. /\ Fault /\ lost \subseteq lost' /\ lost' \subseteq lost \cup {j}
        /\ UNCHANGED <<row, watcher, req, swept, scan, accepted, ran, unwatched, restarts>>
        /\ verdict' = [verdict EXCEPT ![j] = "warning"]
    BY <1>2 DEF FinishRefused, Over, pool
  <2>2. \/ /\ watch[j] = "finishing" /\ watch' = [watch EXCEPT ![j] = "retrying"]
           /\ UNCHANGED <<started, misses>>
        \/ /\ watch[j] = "retrying" /\ watch' = [watch EXCEPT ![j] = "over"] /\ j \in lost'
           /\ started' = started \ {j} /\ misses' = [misses EXCEPT ![j] = 0]
    BY <1>2 DEF FinishRefused, Over
  <2>3. TypeOK'
    BY <1>0, <2>1, <2>2, FaultTyped DEF TypeOK
  <2>4. RequestKnows'
    BY <2>1, <2>2 DEF RequestKnows, TypeOK
  <2>5. WatchKnows'
    BY <2>1, <2>2 DEF WatchKnows, TypeOK
  <2>6. ScanKnown' /\ OneWatcher' /\ RunningIsHeld' /\ DoneMeansRan'
    BY <2>1, <2>2 DEF ScanKnown, OneWatcher, RunningIsHeld, DoneMeansRan, Watching, TypeOK
  <2>7. QED
    BY <2>3, <2>4, <2>5, <2>6
\* The place is emptied only by the watcher that has it.
<1>3. CASE Cleanup(j)
  <2>1. /\ watch[j] = "over" /\ watch' = [watch EXCEPT ![j] = "none"]
        /\ watcher' = IF watcher = j THEN NoJob ELSE watcher
        /\ UNCHANGED <<row, verdict, started, misses, req, swept, scan, accepted, ran, unwatched,
                       lost, restarts, faults>>
    BY <1>3 DEF Cleanup, pool, history
  <2>2. TypeOK'
    BY <1>0, <2>1 DEF TypeOK
  <2>3. RequestKnows'
    BY <2>1 DEF RequestKnows, TypeOK
  <2>4. WatchKnows'
    BY <2>1 DEF WatchKnows, TypeOK
  <2>5. ScanKnown' /\ OneWatcher' /\ RunningIsHeld' /\ DoneMeansRan'
    BY <2>1 DEF ScanKnown, OneWatcher, RunningIsHeld, DoneMeansRan, Watching, TypeOK
  <2>6. QED
    BY <2>2, <2>3, <2>4, <2>5
<1>4. QED
  BY <1>1, <1>2, <1>3 DEF Ending

\* A restart ends request and watchers; the rows wait for the sweep.
LEMMA RestartParts ==
  ASSUME Parts, Restart \/ Sweep \/ SweepRefused
  PROVE  Parts'
<1> USE PoolAssumption DEF Parts
<1>1. CASE Restart
  <2>1. /\ watch' = [k \in Jobs |-> "none"] /\ verdict' = [k \in Jobs |-> "warning"]
        /\ started' = {} /\ misses' = [k \in Jobs |-> 0]
        /\ watcher' = NoJob /\ req' = Idle /\ swept' = FALSE
        /\ UNCHANGED <<row, scan, accepted, ran, unwatched, lost, faults>>
    BY <1>1 DEF Restart, pool, history
  <2>2. restarts' \in 0..MaxRestarts /\ 0 \in 0..MissLimit
    BY <1>1 DEF Restart, TypeOK
  <2>3. TypeOK'
    BY <2>1, <2>2 DEF TypeOK, Idle, Statuses, Stages
  <2>4. RequestKnows' /\ WatchKnows'
    BY <2>1 DEF RequestKnows, WatchKnows, Idle
  <2>5. ScanKnown' /\ OneWatcher' /\ RunningIsHeld' /\ DoneMeansRan'
    BY <2>1 DEF ScanKnown, OneWatcher, RunningIsHeld, DoneMeansRan, Watching
  <2>6. QED
    BY <2>3, <2>4, <2>5
<1>2. CASE Sweep
  <2>1. /\ swept' = TRUE /\ row' = [k \in Jobs |-> IF row[k] = "running" THEN "orphaned" ELSE row[k]]
        /\ UNCHANGED <<watch, verdict, started, misses, watcher, req, scan, accepted, ran, unwatched,
                       lost, restarts, faults>>
    BY <1>2 DEF Sweep, pool, history
  <2>2. TypeOK' /\ RequestKnows'
    BY <2>1 DEF TypeOK, RequestKnows, Statuses
  <2>3. WatchKnows' /\ ScanKnown' /\ OneWatcher' /\ RunningIsHeld' /\ DoneMeansRan'
    BY <2>1 DEF WatchKnows, ScanKnown, OneWatcher, RunningIsHeld, DoneMeansRan, Watching
  <2>4. QED
    BY <2>2, <2>3
<1>3. CASE SweepRefused
  <2>1. /\ swept' = TRUE /\ Fault /\ lost' = lost \cup {k \in Jobs : row[k] = "running"}
        /\ UNCHANGED <<row, watch, verdict, started, misses, watcher, req, scan, accepted, ran,
                       unwatched, restarts>>
    BY <1>3 DEF SweepRefused, pool
  <2>2. TypeOK'
    BY <2>1, FaultTyped DEF TypeOK
  <2>3. RequestKnows' /\ WatchKnows' /\ ScanKnown' /\ OneWatcher' /\ RunningIsHeld' /\ DoneMeansRan'
    BY <2>1 DEF RequestKnows, WatchKnows, ScanKnown, OneWatcher, RunningIsHeld, DoneMeansRan, Watching
  <2>4. QED
    BY <2>2, <2>3
<1>4. QED
  BY <1>1, <1>2, <1>3

-----------------------------------------------------------------------------
LEMMA NextParts == Parts /\ [Next]_vars => Parts'
<1> SUFFICES ASSUME Parts, [Next]_vars
             PROVE  Parts'
  OBVIOUS
<1>1. CASE UNCHANGED vars
  BY <1>1 DEF vars, server, pool, history, Parts, TypeOK, RequestKnows, WatchKnows, ScanKnown,
              OneWatcher, RunningIsHeld, DoneMeansRan, Watching
<1>2. QED
  BY <1>1, RequestParts, ScanParts, ReadingParts, EndingParts, RestartParts DEF Next

\* The whole invariant.
LEMMA PartsHold == Spec => []Parts
BY InitParts, NextParts, PTL DEF Spec

(* Rows, watchers, the request, the scan and the counters keep their types. *)
THEOREM PoolTypes == Spec => []TypeOK
<1>1. Parts => TypeOK
  BY DEF Parts
<1>2. QED
  BY <1>1, PartsHold, PTL

(* However many jobs the pool gets, and though a watcher that has ended makes way only
   in its callback: one at most watches the pool, the one _WATCHERS has (_spawn_watch,
   _cleanup). *)
THEOREM WatchedByOne == Spec => []OneWatcher
<1>1. Parts => OneWatcher
  BY DEF Parts
<1>2. QED
  BY <1>1, PartsHold, PTL

(* A row that says running is watched, or still of the request, or awaits the sweep, or
   one of the cases in which the code leaves it: no watcher, the pool having one, or an
   update refused (_spawn_watch, _job_finish, mark_orphans_on_startup). *)
THEOREM RunningIsSeenTo == Spec => []RunningIsHeld
<1>1. Parts => RunningIsHeld
  BY DEF Parts
<1>2. QED
  BY <1>1, PartsHold, PTL

(* No row says done, by whatever readings, misses, restarts and leftovers of an earlier
   scan, unless a scan ran while the row was there (_watch_scan). *)
THEOREM DoneWasRun == Spec => []DoneMeansRan
<1>1. Parts => DoneMeansRan
  BY DEF Parts
<1>2. QED
  BY <1>1, PartsHold, PTL
=============================================================================
