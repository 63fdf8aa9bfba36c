-------------------------- MODULE BootMirrorProofs --------------------------
(***************************************************************************)
(* For any number of jobs, of overlapping detach requests, of restarts and *)
(* of scrubs: the old member of a pool is only detached when the new disk  *)
(* is complete, and no running job is forgotten.                           *)
(*                                                                         *)
(* OfferMeansComplete is about rows, and a row is written by three actors: *)
(* the job's task, the detach requests and the resume.  The invariant says *)
(* what each of them knows of the disk while it waits.                     *)
(***************************************************************************)
EXTENDS BootMirror, TLAPS

\* Until its task is spawned a job has touched nothing, and nothing is read of it.
UnbornInv ==
  \A j \in Jobs :
    status[j] = "none" \/ starting = j =>
      task[j] = "none" /\ step[j] = 1 /\ copy[j] = "none" /\ unread[j] = "none"

\* A row that says, or said at the restart, that it resilvers has a new disk in the
\* pool; a row that waits for the resume has no task; one whose detach was offered
\* stays in the stages of the detach while it is running.
RowInv ==
  \A j \in Jobs :
    /\ status[j] = "none" <=> stage[j] = "none"
    /\ stage[j] = "resilvering" \/ unread[j] = "resilvering" => copy[j] # "none"
    /\ unread[j] # "none" => task[j] = "none" /\ ~started[j]
    /\ unread[j] = "awaiting_detach" /\ status[j] = "running" =>
         stage[j] \in {"awaiting_detach", "detaching", "cleaning"}

\* The disk is in the pool once the attach has been carried out, and a watcher that
\* has seen a scan run has not seen the last of it while the copy is partial.
TaskInv ==
  \A j \in Jobs :
    /\ task[j] = "command" => step[j] < 4
    /\ task[j] \in {"mark", "command"} => (copy[j] = "none" <=> step[j] < 4)
    /\ task[j] = "watch" =>
         copy[j] # "none" /\ (started[j] /\ copy[j] = "partial" => scan = "SCANNING")

\* A detach request that has passed its checks is for a complete disk.
CallInv ==
  \A c \in Calls :
    call[c].at # "idle" => call[c].job \in Jobs /\ copy[call[c].job] = "complete"

Parts ==
  /\ UnbornInv /\ RowInv /\ TaskInv /\ CallInv
  /\ OfferMeansComplete /\ NothingForgotten

-----------------------------------------------------------------------------

\* The variables of a boot mirror job have their types from the start.
LEMMA InitTypes == Init => TypeOK
<1> SUFFICES ASSUME Init PROVE TypeOK
  OBVIOUS
<1>1. call \in [Calls -> [job : Jobs \cup {NoJob},
                         at : {"idle", "checked", "detaching", "cleaning", "cleaned"}]]
  BY DEF Init, Idle
<1>2. /\ started \in [Jobs -> BOOLEAN] /\ old \in [Jobs -> BOOLEAN]
      /\ resilver \in BOOLEAN
  BY DEF Init
<1>3. step \in [Jobs -> 1..4]
  BY DEF Init
<1>4. QED
  BY <1>1, <1>2, <1>3 DEF Init, TypeOK, Stages

\* Every step keeps the types.
LEMMA StepTypes == TypeOK /\ TaskInv /\ [Next]_vars => TypeOK'
<1> SUFFICES ASSUME TypeOK, TaskInv, [Next]_vars PROVE TypeOK'
  OBVIOUS
<1> USE MirrorAssumption
<1>1. ASSUME NEW j \in Jobs, StartCheck(j) PROVE TypeOK'
  BY <1>1 DEF StartCheck, Active, rows, pool, TypeOK, Stages
<1>2. ASSUME NEW j \in Jobs, StartCreate(j) PROVE TypeOK'
  BY <1>2 DEF StartCreate, Settle, pool, TypeOK, Stages
<1>3. ASSUME NEW j \in Jobs, StartSpawn(j) PROVE TypeOK'
  BY <1>3 DEF StartSpawn, rows, pool, TypeOK, Stages
<1>4. ASSUME NEW j \in Jobs, Mark(j) PROVE TypeOK'
  BY <1>4 DEF Mark, SetStage, Plan, pool, TypeOK, Stages
<1>5. ASSUME NEW j \in Jobs, Command(j) PROVE TypeOK'
  <2>1. step[j] + 1 \in 1..4
    BY <1>5 DEF Command, TypeOK, TaskInv
  <2>2. step' \in [Jobs -> 1..4]
    BY <1>5, <2>1 DEF Command, TypeOK
  <2>3. QED
    BY <1>5, <2>2 DEF Command, Attach, rows, pool, TypeOK, Stages
<1>6. ASSUME NEW j \in Jobs, CommandFails(j) PROVE TypeOK'
  BY <1>6 DEF CommandFails, Settle, Attach, pool, TypeOK, Stages
<1>7. ASSUME NEW j \in Jobs, WatchScanning(j) PROVE TypeOK'
  BY <1>7 DEF WatchScanning, SetStage, pool, TypeOK, Stages
<1>8. ASSUME NEW j \in Jobs, WatchFinished(j) PROVE TypeOK'
  BY <1>8 DEF WatchFinished, SetStage, pool, TypeOK, Stages
<1>9. ASSUME NEW j \in Jobs, WatchFails(j) PROVE TypeOK'
  BY <1>9 DEF WatchFails, Settle, pool, TypeOK, Stages
<1>10. ASSUME NEW j \in Jobs, Abort(j) PROVE TypeOK'
  BY <1>10 DEF Abort, Settle, pool, TypeOK, Stages
<1>11. ASSUME NEW j \in Jobs, ResumeWatch(j) PROVE TypeOK'
  BY <1>11 DEF ResumeWatch, rows, pool, TypeOK, Stages
<1>12. ASSUME NEW j \in Jobs, ResumeLeaves(j) PROVE TypeOK'
  BY <1>12 DEF ResumeLeaves, rows, pool, TypeOK, Stages
<1>13. ASSUME NEW j \in Jobs, ResumeFails(j) PROVE TypeOK'
  BY <1>13 DEF ResumeFails, Settle, pool, TypeOK, Stages
<1>14. ASSUME NEW c \in Calls, NEW j \in Jobs, DetachCheck(c, j) PROVE TypeOK'
  BY <1>14 DEF DetachCheck, Goes, Idle, rows, pool, TypeOK, Stages
<1>15. ASSUME NEW c \in Calls, NEW j \in Jobs, DetachMark(c, j) PROVE TypeOK'
  BY <1>15 DEF DetachMark, SetStage, At, Goes, pool, TypeOK, Stages
<1>16. ASSUME NEW c \in Calls, NEW j \in Jobs, Detach(c, j) PROVE TypeOK'
  BY <1>16 DEF Detach, At, Goes, rows, TypeOK, Stages
<1>17. ASSUME NEW c \in Calls, NEW j \in Jobs, DetachFails(c, j) PROVE TypeOK'
  BY <1>17 DEF DetachFails, Settle, At, Ends, pool, Idle, TypeOK, Stages
<1>18. ASSUME NEW c \in Calls, NEW j \in Jobs, DetachBreaks(c, j) PROVE TypeOK'
  BY <1>18 DEF DetachBreaks, At, Ends, rows, pool, Idle, TypeOK, Stages
<1>19. ASSUME NEW c \in Calls, NEW j \in Jobs, Clean(c, j) PROVE TypeOK'
  BY <1>19 DEF Clean, SetStage, At, Goes, pool, TypeOK, Stages
<1>20. ASSUME NEW c \in Calls, NEW j \in Jobs, DetachDone(c, j) PROVE TypeOK'
  BY <1>20 DEF DetachDone, Settle, At, Ends, pool, Idle, TypeOK, Stages
<1>21. ASSUME Restart PROVE TypeOK'
  BY <1>21 DEF Restart, Idle, rows, pool, TypeOK, Stages
<1>22. ASSUME ScrubStarts PROVE TypeOK'
  BY <1>22 DEF ScrubStarts, rows, TypeOK, Stages
<1>23. ASSUME ResilverStarts PROVE TypeOK'
  BY <1>23 DEF ResilverStarts, rows, TypeOK, Stages
<1>24. ASSUME ScanEnds PROVE TypeOK'
  BY <1>24 DEF ScanEnds, rows, TypeOK, Stages
<1>25. ASSUME UNCHANGED vars PROVE TypeOK'
  BY <1>25 DEF vars, rows, pool, TypeOK
<1>26. QED
  BY <1>1, <1>2, <1>3, <1>4, <1>5, <1>6, <1>7, <1>8, <1>9, <1>10, <1>11, <1>12,
     <1>13, <1>14, <1>15, <1>16, <1>17, <1>18, <1>19, <1>20, <1>21, <1>22,
     <1>23, <1>24, <1>25 DEF Next, RunStep, WatchStep, DetachStep, ResumeStep

\* The strengthening holds at the start.
LEMMA InitParts == Init => Parts
<1> SUFFICES ASSUME Init PROVE Parts
  OBVIOUS
<1>1. UnbornInv /\ RowInv /\ TaskInv
  BY MirrorAssumption DEF Init, UnbornInv, RowInv, TaskInv
<1>2. CallInv
  BY DEF Init, Idle, CallInv
<1>3. OfferMeansComplete /\ NothingForgotten
  BY DEF Init, OfferMeansComplete, NothingForgotten, Active
<1>4. QED
  BY <1>1, <1>2, <1>3 DEF Parts

\* Every step keeps the strengthening.
LEMMA StepParts == TypeOK /\ Parts /\ [Next]_vars => Parts'
<1> SUFFICES ASSUME TypeOK, Parts, [Next]_vars PROVE Parts'
  OBVIOUS
<1> USE DEF Parts
<1>1. ASSUME NEW j \in Jobs, StartCheck(j) PROVE Parts'
  <2>1. UnbornInv'
    BY <1>1, MirrorAssumption DEF StartCheck, Active, rows, pool, TypeOK,
       UnbornInv, RowInv
  <2>2. NothingForgotten'
    BY <1>1, MirrorAssumption DEF StartCheck, Active, rows, pool, TypeOK,
       NothingForgotten
  <2>3. RowInv' /\ TaskInv' /\ CallInv' /\ OfferMeansComplete'
    BY <1>1 DEF StartCheck, rows, pool, RowInv, TaskInv, CallInv,
       OfferMeansComplete
  <2>4. QED BY <2>1, <2>2, <2>3
<1>2. ASSUME NEW j \in Jobs, StartCreate(j) PROVE Parts'
  <2>1. UnbornInv'
    BY <1>2, MirrorAssumption DEF StartCreate, Settle, pool, TypeOK, UnbornInv
  <2>2. RowInv'
    BY <1>2 DEF StartCreate, Settle, pool, TypeOK, RowInv, UnbornInv
  <2>3. OfferMeansComplete'
    BY <1>2 DEF StartCreate, Settle, pool, TypeOK, OfferMeansComplete
  <2>4. NothingForgotten'
    BY <1>2, MirrorAssumption DEF StartCreate, Settle, pool, TypeOK,
       NothingForgotten, Active
  <2>5. TaskInv' /\ CallInv'
    BY <1>2 DEF StartCreate, Settle, pool, TaskInv, CallInv
  <2>6. QED BY <2>1, <2>2, <2>3, <2>4, <2>5
<1>3. ASSUME NEW j \in Jobs, StartSpawn(j) PROVE Parts'
  <2>1. UnbornInv'
    BY <1>3, MirrorAssumption DEF StartSpawn, rows, pool, TypeOK, UnbornInv
  <2>2. RowInv'
    BY <1>3 DEF StartSpawn, rows, pool, TypeOK, RowInv, UnbornInv
  <2>3. TaskInv'
    BY <1>3 DEF StartSpawn, rows, pool, TypeOK, TaskInv, UnbornInv
  <2>4. NothingForgotten'
    BY <1>3, MirrorAssumption DEF StartSpawn, rows, pool, TypeOK,
       NothingForgotten, Active
  <2>5. CallInv' /\ OfferMeansComplete'
    BY <1>3 DEF StartSpawn, rows, pool, CallInv, OfferMeansComplete
  <2>6. QED BY <2>1, <2>2, <2>3, <2>4, <2>5
<1>4. ASSUME NEW j \in Jobs, Mark(j) PROVE Parts'
  <2>1. UnbornInv'
    BY <1>4, MirrorAssumption DEF Mark, SetStage, Plan, pool, TypeOK, UnbornInv
  <2>2. RowInv'
    BY <1>4 DEF Mark, SetStage, Plan, pool, TypeOK, RowInv, TaskInv, UnbornInv
  <2>3. TaskInv'
    BY <1>4 DEF Mark, SetStage, Plan, pool, TypeOK, TaskInv
  <2>4. OfferMeansComplete'
    BY <1>4 DEF Mark, SetStage, Plan, pool, TypeOK, OfferMeansComplete
  <2>5. NothingForgotten'
    BY <1>4, MirrorAssumption DEF Mark, SetStage, Plan, pool, TypeOK,
       NothingForgotten, Active
  <2>6. CallInv'
    BY <1>4 DEF Mark, SetStage, pool, CallInv
  <2>7. QED BY <2>1, <2>2, <2>3, <2>4, <2>5, <2>6
<1>5. ASSUME NEW j \in Jobs, Command(j) PROVE Parts'
  <2>1. UnbornInv'
    BY <1>5, MirrorAssumption DEF Command, Attach, rows, pool, TypeOK,
       UnbornInv
  <2>2. RowInv'
    BY <1>5 DEF Command, Attach, rows, pool, TypeOK, RowInv
  <2>3. TaskInv'
    BY <1>5 DEF Command, Attach, rows, pool, TypeOK, TaskInv
  <2>4. CallInv'
    BY <1>5 DEF Command, Attach, rows, pool, TypeOK, CallInv, TaskInv
  <2>5. OfferMeansComplete'
    BY <1>5 DEF Command, Attach, rows, pool, TypeOK, OfferMeansComplete,
       TaskInv
  <2>6. NothingForgotten'
    BY <1>5, MirrorAssumption DEF Command, Attach, rows, pool, TypeOK,
       NothingForgotten, Active
  <2>7. QED BY <2>1, <2>2, <2>3, <2>4, <2>5, <2>6
<1>6. ASSUME NEW j \in Jobs, CommandFails(j) PROVE Parts'
  <2>1. UnbornInv'
    BY <1>6, MirrorAssumption DEF CommandFails, Settle, Attach, pool, TypeOK,
       UnbornInv
  <2>2. RowInv'
    BY <1>6 DEF CommandFails, Settle, Attach, pool, TypeOK, RowInv
  <2>3. TaskInv'
    BY <1>6 DEF CommandFails, Settle, Attach, pool, TypeOK, TaskInv
  <2>4. CallInv'
    BY <1>6 DEF CommandFails, Settle, Attach, pool, TypeOK, CallInv, TaskInv
  <2>5. OfferMeansComplete'
    BY <1>6 DEF CommandFails, Settle, Attach, pool, TypeOK, OfferMeansComplete,
       TaskInv
  <2>6. NothingForgotten'
    BY <1>6, MirrorAssumption DEF CommandFails, Settle, Attach, pool, TypeOK,
       NothingForgotten, Active
  <2>7. QED BY <2>1, <2>2, <2>3, <2>4, <2>5, <2>6
<1>7. ASSUME NEW j \in Jobs, WatchScanning(j) PROVE Parts'
  <2>1. RowInv'
    BY <1>7 DEF WatchScanning, SetStage, pool, TypeOK, RowInv, TaskInv,
       UnbornInv
  <2>2. TaskInv'
    BY <1>7 DEF WatchScanning, SetStage, pool, TypeOK, TaskInv
  <2>3. OfferMeansComplete'
    BY <1>7 DEF WatchScanning, SetStage, pool, TypeOK, OfferMeansComplete
  <2>4. NothingForgotten'
    BY <1>7 DEF WatchScanning, SetStage, pool, TypeOK, NothingForgotten, Active
  <2>5. UnbornInv' /\ CallInv'
    BY <1>7 DEF WatchScanning, SetStage, pool, UnbornInv, CallInv
  <2>6. QED BY <2>1, <2>2, <2>3, <2>4, <2>5
<1>8. ASSUME NEW j \in Jobs, WatchFinished(j) PROVE Parts'
  <2>1. UnbornInv'
    BY <1>8 DEF WatchFinished, SetStage, pool, TypeOK, UnbornInv
  <2>2. RowInv'
    BY <1>8 DEF WatchFinished, SetStage, pool, TypeOK, RowInv, TaskInv,
       UnbornInv
  <2>3. TaskInv'
    BY <1>8 DEF WatchFinished, SetStage, pool, TypeOK, TaskInv
  <2>4. OfferMeansComplete'
    BY <1>8 DEF WatchFinished, SetStage, pool, TypeOK, OfferMeansComplete,
       TaskInv
  <2>5. NothingForgotten'
    BY <1>8 DEF WatchFinished, SetStage, pool, TypeOK, NothingForgotten, Active
  <2>6. CallInv'
    BY <1>8 DEF WatchFinished, SetStage, pool, CallInv
  <2>7. QED BY <2>1, <2>2, <2>3, <2>4, <2>5, <2>6
<1>9. ASSUME NEW j \in Jobs, WatchFails(j) PROVE Parts'
  <2>1. UnbornInv'
    BY <1>9 DEF WatchFails, Settle, pool, TypeOK, UnbornInv
  <2>2. RowInv'
    BY <1>9 DEF WatchFails, Settle, pool, TypeOK, RowInv
  <2>3. TaskInv'
    BY <1>9 DEF WatchFails, Settle, pool, TypeOK, TaskInv
  <2>4. OfferMeansComplete'
    BY <1>9 DEF WatchFails, Settle, pool, TypeOK, OfferMeansComplete
  <2>5. NothingForgotten'
    BY <1>9 DEF WatchFails, Settle, pool, TypeOK, NothingForgotten, Active
  <2>6. CallInv'
    BY <1>9 DEF WatchFails, Settle, pool, CallInv
  <2>7. QED BY <2>1, <2>2, <2>3, <2>4, <2>5, <2>6
<1>10. ASSUME NEW j \in Jobs, Abort(j) PROVE Parts'
  <2>1. UnbornInv'
    BY <1>10 DEF Abort, Settle, pool, TypeOK, UnbornInv
  <2>2. RowInv'
    BY <1>10 DEF Abort, Settle, pool, TypeOK, RowInv
  <2>3. TaskInv'
    BY <1>10 DEF Abort, Settle, pool, TypeOK, TaskInv
  <2>4. OfferMeansComplete'
    BY <1>10 DEF Abort, Settle, pool, TypeOK, OfferMeansComplete
  <2>5. NothingForgotten'
    BY <1>10 DEF Abort, Settle, pool, TypeOK, NothingForgotten, Active
  <2>6. CallInv'
    BY <1>10 DEF Abort, Settle, pool, CallInv
  <2>7. QED BY <2>1, <2>2, <2>3, <2>4, <2>5, <2>6
<1>11. ASSUME NEW j \in Jobs, ResumeWatch(j) PROVE Parts'
  <2>1. UnbornInv'
    BY <1>11 DEF ResumeWatch, rows, pool, TypeOK, UnbornInv
  <2>2. RowInv'
    BY <1>11 DEF ResumeWatch, rows, pool, TypeOK, RowInv
  <2>3. TaskInv'
    BY <1>11 DEF ResumeWatch, rows, pool, TypeOK, TaskInv, RowInv
  <2>4. NothingForgotten'
    BY <1>11 DEF ResumeWatch, rows, pool, TypeOK, NothingForgotten, Active
  <2>5. CallInv' /\ OfferMeansComplete'
    BY <1>11 DEF ResumeWatch, rows, pool, CallInv, OfferMeansComplete
  <2>6. QED BY <2>1, <2>2, <2>3, <2>4, <2>5
<1>12. ASSUME NEW j \in Jobs, ResumeLeaves(j) PROVE Parts'
  <2>1. UnbornInv'
    BY <1>12 DEF ResumeLeaves, rows, pool, TypeOK, UnbornInv
  <2>2. RowInv'
    BY <1>12 DEF ResumeLeaves, rows, pool, TypeOK, RowInv
  <2>3. NothingForgotten'
    BY <1>12 DEF ResumeLeaves, rows, pool, TypeOK, NothingForgotten, RowInv,
       Active
  <2>4. TaskInv' /\ CallInv' /\ OfferMeansComplete'
    BY <1>12 DEF ResumeLeaves, rows, pool, TaskInv, CallInv, OfferMeansComplete
  <2>5. QED BY <2>1, <2>2, <2>3, <2>4
<1>13. ASSUME NEW j \in Jobs, ResumeFails(j) PROVE Parts'
  <2>1. UnbornInv'
    BY <1>13 DEF ResumeFails, Settle, pool, TypeOK, UnbornInv
  <2>2. RowInv'
    BY <1>13 DEF ResumeFails, Settle, pool, TypeOK, RowInv
  <2>3. OfferMeansComplete'
    BY <1>13 DEF ResumeFails, Settle, pool, TypeOK, OfferMeansComplete
  <2>4. NothingForgotten'
    BY <1>13 DEF ResumeFails, Settle, pool, TypeOK, NothingForgotten, Active
  <2>5. TaskInv' /\ CallInv'
    BY <1>13 DEF ResumeFails, Settle, pool, TaskInv, CallInv
  <2>6. QED BY <2>1, <2>2, <2>3, <2>4, <2>5
<1>14. ASSUME NEW c \in Calls, NEW j \in Jobs, DetachCheck(c, j) PROVE Parts'
  <2>1. CallInv'
    BY <1>14 DEF DetachCheck, Goes, Idle, rows, pool, TypeOK, CallInv,
       OfferMeansComplete
  <2>2. UnbornInv' /\ RowInv' /\ TaskInv' /\ OfferMeansComplete' /\ NothingForgotten'
    BY <1>14 DEF DetachCheck, rows, pool, UnbornInv, RowInv, TaskInv,
       OfferMeansComplete, NothingForgotten, Active
  <2>3. QED BY <2>1, <2>2
<1>15. ASSUME NEW c \in Calls, NEW j \in Jobs, DetachMark(c, j) PROVE Parts'
  <2>1. RowInv'
    BY <1>15 DEF DetachMark, SetStage, At, Goes, pool, TypeOK, RowInv, CallInv,
       UnbornInv
  <2>2. CallInv'
    BY <1>15 DEF DetachMark, SetStage, At, Goes, pool, TypeOK, CallInv
  <2>3. OfferMeansComplete'
    BY <1>15 DEF DetachMark, SetStage, At, Goes, pool, TypeOK,
       OfferMeansComplete, CallInv
  <2>4. NothingForgotten'
    BY <1>15 DEF DetachMark, SetStage, At, Goes, pool, TypeOK,
       NothingForgotten, Active
  <2>5. UnbornInv' /\ TaskInv'
    BY <1>15 DEF DetachMark, SetStage, pool, UnbornInv, TaskInv
  <2>6. QED BY <2>1, <2>2, <2>3, <2>4, <2>5
<1>16. ASSUME NEW c \in Calls, NEW j \in Jobs, Detach(c, j) PROVE Parts'
  <2>1. CallInv'
    BY <1>16 DEF Detach, At, Goes, rows, TypeOK, CallInv
  <2>2. UnbornInv' /\ RowInv' /\ TaskInv' /\ OfferMeansComplete' /\ NothingForgotten'
    BY <1>16 DEF Detach, rows, UnbornInv, RowInv, TaskInv, OfferMeansComplete,
       NothingForgotten, Active
  <2>3. QED BY <2>1, <2>2
<1>17. ASSUME NEW c \in Calls, NEW j \in Jobs, DetachFails(c, j) PROVE Parts'
  <2>1. UnbornInv'
    BY <1>17 DEF DetachFails, Settle, At, Ends, pool, Idle, TypeOK, UnbornInv,
       CallInv
  <2>2. RowInv'
    BY <1>17 DEF DetachFails, Settle, At, Ends, pool, Idle, TypeOK, RowInv,
       CallInv
  <2>3. CallInv'
    BY <1>17 DEF DetachFails, Settle, At, Ends, pool, Idle, TypeOK, CallInv
  <2>4. OfferMeansComplete'
    BY <1>17 DEF DetachFails, Settle, At, Ends, pool, Idle, TypeOK,
       OfferMeansComplete, CallInv
  <2>5. NothingForgotten'
    BY <1>17 DEF DetachFails, Settle, At, Ends, pool, Idle, TypeOK,
       NothingForgotten, Active
  <2>6. TaskInv'
    BY <1>17 DEF DetachFails, Settle, pool, TaskInv
  <2>7. QED BY <2>1, <2>2, <2>3, <2>4, <2>5, <2>6
<1>18. ASSUME NEW c \in Calls, NEW j \in Jobs, DetachBreaks(c, j) PROVE Parts'
  <2>1. CallInv'
    BY <1>18 DEF DetachBreaks, At, Ends, rows, pool, Idle, TypeOK, CallInv
  <2>2. UnbornInv' /\ RowInv' /\ TaskInv' /\ OfferMeansComplete' /\ NothingForgotten'
    BY <1>18 DEF DetachBreaks, rows, pool, UnbornInv, RowInv, TaskInv,
       OfferMeansComplete, NothingForgotten, Active
  <2>3. QED BY <2>1, <2>2
<1>19. ASSUME NEW c \in Calls, NEW j \in Jobs, Clean(c, j) PROVE Parts'
  <2>1. RowInv'
    BY <1>19 DEF Clean, SetStage, At, Goes, pool, TypeOK, RowInv, CallInv,
       UnbornInv
  <2>2. CallInv'
    BY <1>19 DEF Clean, SetStage, At, Goes, pool, TypeOK, CallInv
  <2>3. OfferMeansComplete'
    BY <1>19 DEF Clean, SetStage, At, Goes, pool, TypeOK, OfferMeansComplete,
       CallInv
  <2>4. NothingForgotten'
    BY <1>19 DEF Clean, SetStage, At, Goes, pool, TypeOK, NothingForgotten,
       Active
  <2>5. UnbornInv' /\ TaskInv'
    BY <1>19 DEF Clean, SetStage, pool, UnbornInv, TaskInv
  <2>6. QED BY <2>1, <2>2, <2>3, <2>4, <2>5
<1>20. ASSUME NEW c \in Calls, NEW j \in Jobs, DetachDone(c, j) PROVE Parts'
  <2>1. UnbornInv'
    BY <1>20 DEF DetachDone, Settle, At, Ends, pool, Idle, TypeOK, UnbornInv
  <2>2. RowInv'
    BY <1>20 DEF DetachDone, Settle, At, Ends, pool, Idle, TypeOK, RowInv
  <2>3. CallInv'
    BY <1>20 DEF DetachDone, Settle, At, Ends, pool, Idle, TypeOK, CallInv
  <2>4. OfferMeansComplete'
    BY <1>20 DEF DetachDone, Settle, At, Ends, pool, Idle, TypeOK,
       OfferMeansComplete, CallInv
  <2>5. NothingForgotten'
    BY <1>20 DEF DetachDone, Settle, At, Ends, pool, Idle, TypeOK,
       NothingForgotten, Active
  <2>6. TaskInv'
    BY <1>20 DEF DetachDone, Settle, pool, TaskInv
  <2>7. QED BY <2>1, <2>2, <2>3, <2>4, <2>5, <2>6
<1>21. ASSUME Restart PROVE Parts'
  <2>1. UnbornInv'
    BY <1>21, MirrorAssumption DEF Restart, Idle, rows, pool, TypeOK, Stages,
       UnbornInv, RowInv
  <2>2. RowInv'
    BY <1>21 DEF Restart, Idle, rows, pool, TypeOK, Stages, RowInv
  <2>3. TaskInv'
    BY <1>21 DEF Restart, Idle, rows, pool, TypeOK, Stages, TaskInv
  <2>4. CallInv'
    BY <1>21 DEF Restart, Idle, rows, pool, TypeOK, Stages, CallInv
  <2>5. NothingForgotten'
    BY <1>21, MirrorAssumption DEF Restart, Idle, rows, pool, TypeOK, Stages,
       NothingForgotten, RowInv, Active
  <2>6. OfferMeansComplete'
    BY <1>21 DEF Restart, rows, pool, OfferMeansComplete
  <2>7. QED BY <2>1, <2>2, <2>3, <2>4, <2>5, <2>6
<1>22. ASSUME ScrubStarts PROVE Parts'
  <2>1. TaskInv'
    BY <1>22 DEF ScrubStarts, rows, TypeOK, TaskInv
  <2>2. UnbornInv' /\ RowInv' /\ CallInv' /\ OfferMeansComplete' /\ NothingForgotten'
    BY <1>22 DEF ScrubStarts, rows, UnbornInv, RowInv, CallInv,
       OfferMeansComplete, NothingForgotten, Active
  <2>3. QED BY <2>1, <2>2
<1>23. ASSUME ResilverStarts PROVE Parts'
  <2>1. TaskInv'
    BY <1>23 DEF ResilverStarts, rows, TypeOK, TaskInv
  <2>2. UnbornInv' /\ RowInv' /\ CallInv' /\ OfferMeansComplete' /\ NothingForgotten'
    BY <1>23 DEF ResilverStarts, rows, UnbornInv, RowInv, CallInv,
       OfferMeansComplete, NothingForgotten, Active
  <2>3. QED BY <2>1, <2>2
<1>24. ASSUME ScanEnds PROVE Parts'
  <2>1. UnbornInv'
    BY <1>24 DEF ScanEnds, rows, TypeOK, UnbornInv
  <2>2. RowInv'
    BY <1>24 DEF ScanEnds, rows, TypeOK, RowInv
  <2>3. TaskInv'
    BY <1>24 DEF ScanEnds, rows, TypeOK, TaskInv
  <2>4. CallInv'
    BY <1>24 DEF ScanEnds, rows, TypeOK, CallInv
  <2>5. OfferMeansComplete'
    BY <1>24 DEF ScanEnds, rows, TypeOK, OfferMeansComplete
  <2>6. NothingForgotten'
    BY <1>24 DEF ScanEnds, rows, NothingForgotten, Active
  <2>7. QED BY <2>1, <2>2, <2>3, <2>4, <2>5, <2>6
<1>25. ASSUME UNCHANGED vars PROVE Parts'
  BY <1>25 DEF vars, rows, pool, UnbornInv, RowInv, TaskInv, CallInv,
     OfferMeansComplete, NothingForgotten, Active
<1>26. QED
  BY <1>1, <1>2, <1>3, <1>4, <1>5, <1>6, <1>7, <1>8, <1>9, <1>10, <1>11, <1>12,
     <1>13, <1>14, <1>15, <1>16, <1>17, <1>18, <1>19, <1>20, <1>21, <1>22,
     <1>23, <1>24, <1>25 DEF Next, RunStep, WatchStep, DetachStep, ResumeStep

-----------------------------------------------------------------------------

\* Rows, tasks, requests and pool keep their types, whatever is started, detached,
\* aborted or restarted.
THEOREM TypeCorrect == Spec => []TypeOK
<1>1. Parts => TaskInv
  BY DEF Parts
<1>2. QED
  BY <1>1, InitTypes, StepTypes, InitParts, StepParts, PTL DEF Spec

\* A row that offers the detach, or is done, has a complete new disk.
THEOREM OfferHonest == Spec => []OfferMeansComplete
<1>1. Parts => OfferMeansComplete
  BY DEF Parts
<1>2. QED
  BY <1>1, TypeCorrect, InitParts, StepParts, PTL DEF Spec

\* A running row has somebody who takes it on, or is in the operator's hands.
THEOREM JobsKept == Spec => []NothingForgotten
<1>1. Parts => NothingForgotten
  BY DEF Parts
<1>2. QED
  BY <1>1, TypeCorrect, InitParts, StepParts, PTL DEF Spec

\* The old member leaves the pool only when the new disk is complete.
THEOREM DetachSafe == Spec => DetachOnlyComplete
<1>1. ASSUME TypeOK, Parts, [Next]_vars
      PROVE  [\A j \in Jobs : old[j] /\ ~old'[j] => copy'[j] = "complete"]_vars
  <2>1. ASSUME UNCHANGED old PROVE \A j \in Jobs : old[j] /\ ~old'[j] => copy'[j] = "complete"
    BY <2>1
  <2>2. ASSUME NEW c \in Calls, NEW i \in Jobs, Detach(c, i)
        PROVE  \A j \in Jobs : old[j] /\ ~old'[j] => copy'[j] = "complete"
    BY <1>1, <2>2 DEF Detach, At, Parts, CallInv, TypeOK
  <2>3. ASSUME ScanEnds PROVE \A j \in Jobs : old[j] /\ ~old'[j] => copy'[j] = "complete"
    BY <1>1, <2>3 DEF ScanEnds, TypeOK
  <2>4. QED
    BY <1>1, <2>1, <2>2, <2>3
    DEF Next, RunStep, WatchStep, DetachStep, ResumeStep, StartCheck, StartCreate, StartSpawn,
        Abort, Mark, Command, CommandFails, Attach, WatchScanning, WatchFinished, WatchFails,
        DetachCheck, DetachMark, DetachFails, DetachBreaks, Clean, DetachDone, ResumeWatch,
        ResumeLeaves, ResumeFails, Restart, ScrubStarts, ResilverStarts, pool
<1>2. QED
  BY <1>1, TypeCorrect, InitParts, StepParts, PTL DEF Spec, DetachOnlyComplete
=============================================================================
