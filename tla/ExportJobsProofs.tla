-------------------------- MODULE ExportJobsProofs --------------------------
(***************************************************************************)
(* For any number of jobs, delete requests, restarts and refused updates:  *)
(* no purge meets a conversion, and what is on a node belongs to a job     *)
(* that will have it removed.  The proofs assume that no job is created    *)
(* before the sweep of the start-up; without that the first does not hold. *)
(***************************************************************************)
EXTENDS ExportJobs, TLAPS

\* A job that has not been created, or has ended, has no task.
Settled ==
  \A j \in Jobs : row[j] \in {"none", "done", "failed", "expired"} => task[j] = "none"

\* No task outlives the daemon, and none is started before the sweep.
SweepFirst == ~swept => \A j \in Jobs : task[j] = "none"

\* Whoever is at a job is at one that was created, and the reaper at one that is over.
Known ==
  /\ \A d \in Deletes : del[d].stage # "idle" => row[del[d].job] # "none" /\ del[d].read # "none"
  /\ \A j \in reap.todo : row[j] # "none"
  /\ reap.stage = "mark" =>
       /\ row[reap.job] # "none" /\ task[reap.job] = "none" /\ dir[reap.job] = "absent"

\* What a row no longer speaks of is gone, and stays gone.
Gone == \A j \in Jobs \ undone :
          row[j] \in {"expired", "deleted"} => task[j] = "none" /\ dir[j] = "absent"

\* A delete that is about to mark has purged, or read that there was nothing to purge.
MarkIsRight ==
  \A d \in Deletes : del[d].stage = "mark" /\ del[d].read # "pending" /\ del[d].job \notin undone
    => task[del[d].job] = "none" /\ dir[del[d].job] = "absent"

\* A job that was never created has left nothing.
Untouched == \A j \in Jobs : row[j] = "none" => dir[j] = "absent"

Parts == /\ Settled /\ SweepFirst /\ Known /\ PurgeOnlySettled
         /\ Gone /\ MarkIsRight /\ Untouched /\ OutputsTracked

\* A refusal is counted.
LEMMA RefusedTypes == Refused /\ TypeOK => faults' \in 0..MaxFaults
  BY ExportAssumption DEF Refused, TypeOK

-----------------------------------------------------------------------------
\* A request that rests, and a reaper that does, are of their types.
LEMMA RestTypes == /\ NoRequest \in RequestTypes /\ NoRequest.stage = "idle"
                   /\ Resting \in ReaperTypes /\ Resting.stage = "rest"
  BY DEF NoRequest, RequestTypes, Statuses, Resting, ReaperTypes

LEMMA InitTypes == Init => TypeOK
<1> SUFFICES ASSUME Init PROVE TypeOK
  OBVIOUS
<1>1. /\ row \in [Jobs -> Statuses] /\ task \in [Jobs -> Tasks]
      /\ dir \in [Jobs -> {"absent", "partial", "whole"}]
  BY DEF Init, Statuses, Tasks
<1>2. /\ del \in [Deletes -> RequestTypes] /\ reap \in ReaperTypes
      /\ \A d \in Deletes : del[d].stage = "idle"
      /\ reap.stage = "rest"
  BY RestTypes DEF Init
<1>3. restarts \in 0..MaxRestarts /\ faults \in 0..MaxFaults
  BY ExportAssumption DEF Init
<1>4. QED
  BY <1>1, <1>2, <1>3 DEF Init, TypeOK

\* The conversion's steps keep the types.
LEMMA ConversionTypes == ASSUME TypeOK, NEW j \in Jobs, Create(j) \/ Conversion(j) PROVE TypeOK'
<1>1. /\ row' \in [Jobs -> Statuses] /\ task' \in [Jobs -> Tasks]
      /\ dir' \in [Jobs -> {"absent", "partial", "whole"}]
  BY DEF Create, Conversion, Begin, BeginFails, Convert, Collect, Break, Finish, UpdateRefused,
         TypeOK, Statuses, Tasks
<1>2. faults' \in 0..MaxFaults
  BY RefusedTypes
     DEF Create, Conversion, Begin, BeginFails, Convert, Collect, Break, Finish, UpdateRefused, TypeOK
<1>3. UNCHANGED <<due, del, reap, swept, undone, restarts>>
  BY DEF Create, Conversion, Begin, BeginFails, Convert, Collect, Break, Finish, UpdateRefused
<1>4. QED
  BY <1>1, <1>2, <1>3 DEF TypeOK

LEMMA DeleteTypes == ASSUME TypeOK, NEW d \in Deletes, DeleteGoesOn(d) \/ \E j \in Jobs : DeleteRead(d, j)
                     PROVE TypeOK'
<1>1. CASE \E j \in Jobs : DeleteRead(d, j)
  BY <1>1 DEF DeleteRead, TypeOK, RequestTypes, Statuses
<1>2. CASE DeletePurge(d)
  BY <1>2 DEF DeletePurge, TypeOK, RequestTypes
<1>3. CASE DeleteFails(d)
  <2>1. faults' \in 0..MaxFaults
    BY <1>3, RefusedTypes DEF DeleteFails, TypeOK
  <2>2. QED
    BY <1>3, <2>1 DEF DeleteFails, TypeOK, RequestTypes, NoRequest, Statuses
<1>4. CASE DeleteMark(d)
  BY <1>4 DEF DeleteMark, TypeOK, RequestTypes, NoRequest, Statuses
<1>5. QED
  BY <1>1, <1>2, <1>3, <1>4 DEF DeleteGoesOn

LEMMA ReaperTypesKept == ASSUME TypeOK, Reaper PROVE TypeOK'
<1>1. CASE ReapQuery \/ ReapRest
  <2>1. reap' \in ReaperTypes /\ reap'.stage # "mark"
    <3>1. CASE ReapRest
      BY <3>1, RestTypes DEF ReapRest
    <3>2. CASE ReapQuery
      BY <3>2 DEF ReapQuery, TypeOK, ReaperTypes
    <3>3. QED
      BY <1>1, <3>1, <3>2
  <2>2. QED
    BY <1>1, <2>1 DEF ReapQuery, ReapRest, TypeOK
<1>3. CASE ReapMark
  <2>1. row' \in [Jobs -> Statuses]
    BY <1>3 DEF ReapMark, TypeOK, Statuses
  <2>2. reap' \in ReaperTypes /\ reap'.stage = "next"
    BY <1>3 DEF ReapMark, TypeOK, ReaperTypes
  <2>3. QED
    BY <1>3, <2>1, <2>2 DEF ReapMark, TypeOK
<1>4. ASSUME NEW j \in Jobs, ReapPurge(j) PROVE TypeOK'
  <2>1. reap' \in ReaperTypes /\ reap'.job = j
    BY <1>4 DEF ReapPurge, TypeOK, ReaperTypes
  <2>2. dir' \in [Jobs -> {"absent", "partial", "whole"}]
    BY <1>4 DEF ReapPurge, TypeOK
  <2>3. QED
    BY <1>4, <2>1, <2>2 DEF ReapPurge, TypeOK
<1>2. CASE ReapFails
  <2>1. faults' \in 0..MaxFaults
    BY <1>2, RefusedTypes DEF ReapFails, TypeOK
  <2>2. QED
    BY <1>2, <2>1 DEF ReapFails, TypeOK, ReaperTypes
<1>5. QED
  BY <1>1, <1>2, <1>3, <1>4 DEF Reaper

LEMMA StepTypes == TypeOK /\ [Next]_vars => TypeOK'
<1> SUFFICES ASSUME TypeOK, [Next]_vars PROVE TypeOK'
  OBVIOUS
<1>1. CASE \E j \in Jobs : Expire(j)
  BY <1>1 DEF Expire, TypeOK
<1>2. CASE Restart
  <2>1. /\ task' \in [Jobs -> Tasks]
        /\ del' \in [Deletes -> RequestTypes] /\ reap' \in ReaperTypes
        /\ \A d \in Deletes : del'[d].stage = "idle"
        /\ reap'.stage = "rest"
    BY <1>2, RestTypes DEF Restart, Tasks
  <2>2. restarts' \in 0..MaxRestarts
    BY <1>2, ExportAssumption DEF Restart, TypeOK
  <2>3. QED
    BY <1>2, <2>1, <2>2 DEF Restart, TypeOK
<1>3. CASE Sweep
  BY <1>3 DEF Sweep, TypeOK, Statuses
<1>4. CASE SweepRefused
  BY <1>4, RefusedTypes DEF SweepRefused, TypeOK
<1>5. CASE UNCHANGED vars
  BY <1>5 DEF vars, TypeOK
<1>6. QED
  BY <1>1, <1>2, <1>3, <1>4, <1>5, ConversionTypes, DeleteTypes, ReaperTypesKept DEF Next

-----------------------------------------------------------------------------
LEMMA InitParts == Init => Parts
  BY DEF Init, Parts, Settled, SweepFirst, Known, PurgeOnlySettled, Purging, Gone, MarkIsRight,
         Untouched, OutputsTracked, NoRequest, Resting

\* A new job's task meets nobody: only jobs that were created are purged.
LEMMA CreateParts == ASSUME Overtaking = FALSE, TypeOK, Parts, NEW j \in Jobs, Create(j) PROVE Parts'
<1>1. /\ row[j] = "none" /\ swept
      /\ row' = [row EXCEPT ![j] = "pending"] /\ task' = [task EXCEPT ![j] = "queued"]
      /\ UNCHANGED <<dir, del, reap, swept, undone>>
  BY DEF Create
<1>2. Settled' /\ SweepFirst' /\ Untouched' /\ Gone' /\ OutputsTracked'
  BY <1>1 DEF Parts, Settled, SweepFirst, Untouched, Gone, OutputsTracked, Kept, TypeOK
<1>3. Known' /\ PurgeOnlySettled' /\ MarkIsRight'
  BY <1>1 DEF Parts, Known, PurgeOnlySettled, Purging, MarkIsRight, TypeOK, RequestTypes, ReaperTypes
<1>4. QED
  BY <1>2, <1>3 DEF Parts

\* What the task of a job does: it had one, and gets no new one.
LEMMA TaskParts == ASSUME TypeOK, Parts, NEW j \in Jobs, Conversion(j) PROVE Parts'
<1>1. /\ task[j] # "none" /\ task' = [task EXCEPT ![j] = task'[j]]
      /\ row' = [row EXCEPT ![j] = row'[j]] /\ dir' = [dir EXCEPT ![j] = dir'[j]]
      /\ UNCHANGED <<del, reap, swept, undone>>
  BY DEF Conversion, Begin, BeginFails, Convert, Collect, Break, Finish, UpdateRefused, TypeOK
<1>2. /\ row'[j] = row[j] \/ row'[j] \in {"running", "done", "failed"}
      /\ row'[j] \in {"none", "done", "failed", "expired"} => task'[j] = "none"
  BY DEF Conversion, Begin, BeginFails, Convert, Collect, Break, Finish, UpdateRefused, TypeOK,
         Parts, Settled
<1>3. row[j] # "none" /\ (j \in undone \/ row[j] \notin {"expired", "deleted"})
  BY <1>1 DEF Parts, Settled, Gone
<1>4. Settled' /\ SweepFirst' /\ Untouched' /\ Gone' /\ OutputsTracked'
  BY <1>1, <1>2, <1>3 DEF Parts, Settled, SweepFirst, Untouched, Gone, OutputsTracked, Kept, TypeOK, Statuses
<1>5. PurgeOnlySettled'
  BY <1>1 DEF Parts, PurgeOnlySettled, Purging, TypeOK
<1>6. Known'
  BY <1>1, <1>2, <1>3 DEF Parts, Known, TypeOK, RequestTypes, ReaperTypes
<1>7. MarkIsRight'
  BY <1>1 DEF Parts, MarkIsRight, TypeOK, RequestTypes
<1>8. QED
  BY <1>4, <1>5, <1>6, <1>7 DEF Parts

\* A delete reads a row, purges, fails or marks.
LEMMA DeleteParts == ASSUME TypeOK, Parts, NEW d \in Deletes,
                            DeleteGoesOn(d) \/ \E j \in Jobs : DeleteRead(d, j)
                     PROVE Parts'
<1>1. ASSUME NEW j \in Jobs, DeleteRead(d, j) PROVE Parts'
  <2>1. /\ UNCHANGED <<row, task, dir, reap, swept, undone>>
        /\ row[j] \notin {"none", "running"} /\ row[j] \in Statuses
        /\ del' = [del EXCEPT ![d] = [job |-> j, read |-> row[j],
                     stage |-> IF row[j] \in {"done", "failed"} THEN "purge" ELSE "mark"]]
    BY <1>1 DEF DeleteRead, TypeOK
  <2>2. Settled' /\ SweepFirst' /\ Gone' /\ Untouched' /\ OutputsTracked'
    BY <2>1 DEF Parts, Settled, SweepFirst, Gone, Untouched, OutputsTracked
  <2>3. Known'
    BY <2>1 DEF Parts, Known, TypeOK, RequestTypes
  <2>4. PurgeOnlySettled'
    BY <2>1 DEF Parts, Settled, PurgeOnlySettled, Purging, TypeOK, RequestTypes
  <2>5. MarkIsRight'
    BY <2>1 DEF Parts, Gone, MarkIsRight, TypeOK, RequestTypes, Statuses
  <2>6. QED
    BY <2>2, <2>3, <2>4, <2>5 DEF Parts
<1>2. CASE DeletePurge(d)
  <2>1. del[d].job \in Jobs /\ task[del[d].job] = "none"
    BY <1>2 DEF DeletePurge, Parts, PurgeOnlySettled, Purging, TypeOK
  <2>2. /\ UNCHANGED <<row, task, reap, swept, undone>>
        /\ dir' = [dir EXCEPT ![del[d].job] = "absent"]
        /\ del' = [del EXCEPT ![d].stage = "mark"] /\ del[d].stage = "purge"
    BY <1>2 DEF DeletePurge
  <2>3. Settled' /\ SweepFirst' /\ Gone' /\ Untouched' /\ OutputsTracked'
    BY <2>2 DEF Parts, Settled, SweepFirst, Gone, Untouched, OutputsTracked, TypeOK
  <2>4. Known' /\ PurgeOnlySettled'
    BY <2>2 DEF Parts, Known, PurgeOnlySettled, Purging, TypeOK, RequestTypes, ReaperTypes
  <2>5. MarkIsRight'
    BY <2>1, <2>2 DEF Parts, MarkIsRight, TypeOK, RequestTypes
  <2>6. QED
    BY <2>3, <2>4, <2>5 DEF Parts
<1>3. CASE DeleteFails(d)
  <2>1. /\ UNCHANGED <<row, task, dir, reap, swept, undone>>
        /\ del' = [del EXCEPT ![d] = NoRequest]
    BY <1>3 DEF DeleteFails
  <2>2. Settled' /\ SweepFirst' /\ Gone' /\ Untouched' /\ OutputsTracked'
    BY <2>1 DEF Parts, Settled, SweepFirst, Gone, Untouched, OutputsTracked
  <2>3. Known' /\ PurgeOnlySettled' /\ MarkIsRight'
    BY <2>1 DEF Parts, Known, PurgeOnlySettled, Purging, MarkIsRight, NoRequest, TypeOK, RequestTypes
  <2>4. QED
    BY <2>2, <2>3 DEF Parts
<1>4. CASE DeleteMark(d)
  <2> DEFINE j == del[d].job
  <2>1. /\ j \in Jobs /\ del[d].stage = "mark" /\ row[j] # "none"
        /\ row' = [row EXCEPT ![j] = "deleted"]
        /\ undone' = IF HasGoneOn(d) THEN undone \cup {j} ELSE undone
        /\ del' = [del EXCEPT ![d] = NoRequest]
        /\ UNCHANGED <<task, dir, reap, swept>>
    BY <1>4 DEF DeleteMark, TypeOK, Parts, Known
  <2>2. j \notin undone' => task[j] = "none" /\ dir[j] = "absent"
    BY <2>1 DEF HasGoneOn, Parts, MarkIsRight
  <2>3. Settled' /\ SweepFirst' /\ Untouched'
    BY <2>1 DEF Parts, Settled, SweepFirst, Untouched, TypeOK
  <2>4. Gone' /\ OutputsTracked'
    BY <2>1, <2>2 DEF Parts, Gone, OutputsTracked, TypeOK
  <2>5. Known' /\ PurgeOnlySettled'
    BY <2>1 DEF Parts, Known, PurgeOnlySettled, Purging, NoRequest, TypeOK, RequestTypes, ReaperTypes
  <2>6. MarkIsRight'
    BY <2>1 DEF Parts, MarkIsRight, NoRequest, TypeOK, RequestTypes
  <2>7. QED
    BY <2>3, <2>4, <2>5, <2>6 DEF Parts
<1>5. QED
  BY <1>1, <1>2, <1>3, <1>4 DEF DeleteGoesOn

\* The reaper's rows were done when it read them, and no step gives them a task.
LEMMA ReaperParts == ASSUME TypeOK, Parts, Reaper PROVE Parts'
<1>1. CASE ReapQuery \/ ReapRest \/ ReapFails
  <2>1. /\ UNCHANGED <<row, task, dir, del, swept, undone>>
        /\ reap'.stage # "mark"
        /\ \A j \in reap'.todo : j \in Jobs /\ (j \in reap.todo \/ row[j] = "done")
    <3>1. CASE ReapQuery
      BY <3>1 DEF ReapQuery, TypeOK, ReaperTypes
    <3>2. CASE ReapRest
      BY <3>2 DEF ReapRest, Resting
    <3>3. CASE ReapFails
      BY <3>3 DEF ReapFails, TypeOK, ReaperTypes
    <3>4. QED
      BY <1>1, <3>1, <3>2, <3>3
  <2>2. Settled' /\ SweepFirst' /\ Gone' /\ Untouched' /\ OutputsTracked' /\ MarkIsRight'
    BY <2>1 DEF Parts, Settled, SweepFirst, Gone, Untouched, OutputsTracked, MarkIsRight
  <2>3. Known' /\ PurgeOnlySettled'
    BY <2>1 DEF Parts, Known, Settled, PurgeOnlySettled, Purging
  <2>4. QED
    BY <2>2, <2>3 DEF Parts
<1>2. ASSUME NEW j \in Jobs, ReapPurge(j) PROVE Parts'
  <2>1. /\ UNCHANGED <<row, task, del, swept, undone>>
        /\ dir' = [dir EXCEPT ![j] = "absent"] /\ j \in reap.todo
        /\ reap' = [stage |-> "mark", job |-> j, todo |-> reap.todo \ {j}]
    BY <1>2 DEF ReapPurge
  <2>2. Settled' /\ SweepFirst' /\ Gone' /\ Untouched' /\ OutputsTracked'
    BY <2>1 DEF Parts, Settled, SweepFirst, Gone, Untouched, OutputsTracked, TypeOK
  <2>3. Known' /\ PurgeOnlySettled'
    BY <2>1 DEF Parts, Known, PurgeOnlySettled, Purging, TypeOK, ReaperTypes
  <2>4. MarkIsRight'
    BY <2>1 DEF Parts, MarkIsRight, TypeOK, RequestTypes
  <2>5. QED
    BY <2>2, <2>3, <2>4 DEF Parts
<1>3. CASE ReapMark
  <2>1. /\ reap.job \in Jobs /\ row[reap.job] # "none"
        /\ task[reap.job] = "none" /\ dir[reap.job] = "absent"
        /\ UNCHANGED <<task, dir, del, swept, undone>>
        /\ row' = [row EXCEPT ![reap.job] = "expired"]
        /\ reap' = [reap EXCEPT !.stage = "next", !.job = NoJob]
    BY <1>3 DEF ReapMark, TypeOK, Parts, Known
  <2>2. Settled' /\ SweepFirst' /\ Gone' /\ Untouched' /\ OutputsTracked'
    BY <2>1 DEF Parts, Settled, SweepFirst, Gone, Untouched, OutputsTracked, TypeOK
  <2>3. Known' /\ PurgeOnlySettled'
    BY <2>1 DEF Parts, Known, PurgeOnlySettled, Purging, TypeOK, RequestTypes, ReaperTypes
  <2>4. MarkIsRight'
    BY <2>1 DEF Parts, MarkIsRight
  <2>5. QED
    BY <2>2, <2>3, <2>4 DEF Parts
<1>4. QED
  BY <1>1, <1>2, <1>3 DEF Reaper

LEMMA StepParts == ASSUME Overtaking = FALSE PROVE TypeOK /\ Parts /\ [Next]_vars => Parts'
<1> SUFFICES ASSUME TypeOK, Parts, [Next]_vars PROVE Parts'
  OBVIOUS
<1>1. CASE (\E j \in Jobs : Expire(j)) \/ UNCHANGED vars \/ SweepRefused
  <2>1. UNCHANGED <<row, task, dir, del, reap, undone>> /\ (swept' = swept \/ swept' = TRUE)
    BY <1>1 DEF Expire, vars, SweepRefused
  <2>2. QED
    BY <2>1 DEF Parts, Settled, SweepFirst, Known, PurgeOnlySettled, Purging, Gone, MarkIsRight,
                Untouched, OutputsTracked
<1>2. CASE Restart
  <2>1. /\ task' = [j \in Jobs |-> "none"] /\ del' = [d \in Deletes |-> NoRequest]
        /\ reap' = Resting /\ UNCHANGED <<row, dir, undone>>
    BY <1>2 DEF Restart
  <2>2. Settled' /\ SweepFirst' /\ Gone' /\ Untouched' /\ OutputsTracked'
    BY <2>1 DEF Parts, Settled, SweepFirst, Gone, Untouched, OutputsTracked
  <2>3. Known' /\ PurgeOnlySettled' /\ MarkIsRight'
    BY <2>1 DEF Known, PurgeOnlySettled, Purging, MarkIsRight, NoRequest, Resting
  <2>4. QED
    BY <2>2, <2>3 DEF Parts
<1>3. CASE Sweep
  <2>1. /\ ~swept /\ UNCHANGED <<task, dir, del, reap, undone>>
        /\ row' = [j \in Jobs |-> IF row[j] \in {"pending", "running"} THEN "failed" ELSE row[j]]
        /\ \A j \in Jobs : task[j] = "none"
        /\ swept' = TRUE
    BY <1>3 DEF Sweep, Parts, SweepFirst
  <2>2. Settled' /\ SweepFirst' /\ Gone' /\ Untouched' /\ OutputsTracked'
    BY <2>1 DEF Parts, Settled, SweepFirst, Gone, Untouched, OutputsTracked, Kept, TypeOK
  <2>3. Known' /\ PurgeOnlySettled' /\ MarkIsRight'
    BY <2>1 DEF Parts, Known, PurgeOnlySettled, Purging, MarkIsRight, TypeOK, RequestTypes, ReaperTypes
  <2>4. QED
    BY <2>2, <2>3 DEF Parts
<1>4. QED
  BY <1>1, <1>2, <1>3, CreateParts, TaskParts, DeleteParts, ReaperParts DEF Next

-----------------------------------------------------------------------------
\* Rows, tasks, directories, requests and the reaper keep their types.
THEOREM ExportTypes == Spec => []TypeOK
<1>1. QED
  BY InitTypes, StepTypes, PTL DEF Spec

LEMMA PartsHold == ASSUME Overtaking = FALSE PROVE Spec => []Parts
<1>1. QED
  BY InitTypes, StepTypes, InitParts, StepParts, PTL DEF Spec

\* No purge, of a delete or of the reaper, meets a conversion of its job.
THEOREM PurgeIsSafe == ASSUME Overtaking = FALSE PROVE Spec => []PurgeOnlySettled
<1>1. Parts => PurgeOnlySettled
  BY DEF Parts
<1>2. QED
  BY <1>1, PartsHold, PTL

\* What is on a node belongs to a job that will have it removed.
THEOREM OutputsAccounted == ASSUME Overtaking = FALSE PROVE Spec => []OutputsTracked
<1>1. Parts => OutputsTracked
  BY DEF Parts
<1>2. QED
  BY <1>1, PartsHold, PTL
=============================================================================
