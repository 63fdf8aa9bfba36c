-------------------------- MODULE TaskOutcomeProofs --------------------------
(***************************************************************************)
(* For any number of tasks, watchers, misses and restarts: an outcome that *)
(* is owed is in the log or in pending_tasks (where tracked tasks are      *)
(* remembered), the log tells the truth in order, and no row of            *)
(* pending_tasks is left without its outcome or somebody to see to it.     *)
(***************************************************************************)
EXTENDS TaskOutcome, TLAPS

\* The handler's part of a task's life, before anything is owed.
Beginning(t) ==
  /\ pve[t] = "none" => watcher[t] = "none" /\ log[t] = <<>> /\ t \notin pending
  /\ watcher[t] \in {"submitting", "logged"} => t \notin pending
  /\ watcher[t] = "submitting" => log[t] = <<>>

\* Whoever goes on with a task comes after its submission was logged.
InOrder(t) ==
  /\ watcher[t] \notin {"none", "submitting"} \/ t \in pending => log[t] # <<>> \/ t \in swallowed
  /\ log[t] # <<>> /\ t \notin swallowed => log[t][1] = "submitted"

\* What a watcher has found, and what was logged, is what happened.
Truthful(t) ==
  /\ watcher[t] = "recording" => result[t] \in Outcomes
  /\ "ok" \in Rows(t) \cup {result[t]} => pve[t] = "OK"
  /\ "error" \in Rows(t) \cup {result[t]} => pve[t] = "failed"

\* NoOrphanRow and OutcomeOwed, of one task.
Kept(t) ==
  /\ t \in pending \ swallowed /\ watcher[t] \in {"none", "recorded"} => Settled(t)
  /\ Remembers /\ t \in tracked \ swallowed => Settled(t) \/ t \in pending

Good(t) == Beginning(t) /\ InOrder(t) /\ Truthful(t) /\ Kept(t)

AllGood == \A t \in Tasks : Good(t)

Logs == [Tasks -> Seq(Outcomes \cup {"submitted"})]

-----------------------------------------------------------------------------
(* Lemmas about single steps.                                              *)

\* What audit.write does to the log.
LEMMA WriteEffect ==
  ASSUME TypeOK, NEW t \in Tasks, NEW row \in Outcomes \cup {"submitted"}, Write(t, row)
  PROVE  /\ log' \in Logs /\ \A s \in Tasks \ {t} : log'[s] = log[s]
         /\ swallowed' \subseteq Unlucky /\ swallowed \subseteq swallowed'
         /\ swallowed' \subseteq swallowed \cup {t}
         /\ log'[t] # <<>> \/ t \in swallowed'
         /\ log[t] # <<>> => log'[t] # <<>> /\ log'[t][1] = log[t][1]
         /\ log[t] = <<>> /\ log'[t] # <<>> => log'[t][1] = row
         /\ Rows(t) \subseteq Rows(t)' /\ Rows(t)' \subseteq Rows(t) \cup {row}
         /\ row \in Rows(t)' \/ t \in swallowed'
<1>1. log \in Logs /\ swallowed \subseteq Unlucky
  BY DEF TypeOK, Logs
<1>2. CASE log' = [log EXCEPT ![t] = Append(@, row)] /\ UNCHANGED swallowed
  <2> DEFINE l == log[t]
             m == log'[t]
  <2>1. l \in Seq(Outcomes \cup {"submitted"}) /\ m = Append(l, row) /\ log' \in Logs
    BY <1>1, <1>2 DEF Logs
  <2>2. /\ m # <<>> /\ Len(l) \in Nat /\ DOMAIN l = 1..Len(l) /\ DOMAIN m = 1..(Len(l) + 1)
        /\ m[Len(l) + 1] = row /\ \A i \in DOMAIN l : m[i] = l[i]
        /\ l # <<>> => 1 \in DOMAIN l
        /\ l = <<>> => Len(l) = 0
    <3> HIDE DEF l, m
    <3>1. Len(l) \in Nat /\ DOMAIN l = 1..Len(l) /\ (l # <<>> => Len(l) > 0) /\ (l = <<>> => Len(l) = 0)
      BY <2>1
    <3>2. m # <<>> /\ DOMAIN m = 1..(Len(l) + 1) /\ m[Len(l) + 1] = row /\ \A i \in 1..Len(l) : m[i] = l[i]
      BY <2>1
    <3>3. QED
      BY <3>1, <3>2
  <2>3. Rows(t) = {l[i] : i \in DOMAIN l} /\ Rows(t)' = {m[i] : i \in DOMAIN m}
    BY DEF Rows
  <2> HIDE DEF l, m
  <2>4. Rows(t) \subseteq Rows(t)' /\ Rows(t)' \subseteq Rows(t) \cup {row} /\ row \in Rows(t)'
    BY <2>2, <2>3
  <2>5. /\ l # <<>> => m[1] = l[1]
        /\ l = <<>> => m[1] = row
    BY <2>2
  <2>6. \A s \in Tasks \ {t} : log'[s] = log[s]
    BY <1>1, <1>2 DEF Logs
  <2>7. QED
    BY <1>1, <1>2, <2>1, <2>2, <2>4, <2>5, <2>6 DEF l, m
<1>3. CASE t \in Unlucky /\ swallowed' = swallowed \cup {t} /\ UNCHANGED log
  <2>1. Rows(t)' = Rows(t)
    BY <1>3 DEF Rows
  <2>2. QED
    BY <1>1, <1>3, <2>1
<1>4. QED
  BY <1>2, <1>3 DEF Write

\* A task that a step does not touch.
LEMMA OthersGood ==
  ASSUME NEW s \in Tasks, Good(s),
         pve'[s] = pve[s], log'[s] = log[s], watcher'[s] = watcher[s], result'[s] = result[s],
         s \in pending' <=> s \in pending, s \in tracked' <=> s \in tracked,
         s \in swallowed' <=> s \in swallowed
  PROVE  Good(s)'
<1>1. Rows(s)' = Rows(s)
  BY DEF Rows
<1>2. Beginning(s)' /\ InOrder(s)'
  BY DEF Good, Beginning, InOrder
<1>3. Truthful(s)' /\ Kept(s)'
  BY <1>1 DEF Good, Truthful, Kept, Settled
<1>4. QED
  BY <1>2, <1>3 DEF Good

\* Types, when a step writes nothing into the log and tracks nothing.
LEMMA FoundTypes ==
  ASSUME TypeOK, NEW t \in Tasks, NEW outcome \in Outcomes, Found(t, outcome),
         UNCHANGED <<pve, log, pending, expired, tracked, swallowed, restarts>>
  PROVE  TypeOK'
BY TaskAssumption DEF Found, TypeOK, Stages

-----------------------------------------------------------------------------
(* Types.                                                                  *)

LEMMA DaemonTypes == ASSUME TypeOK, AllGood, NEW t \in Tasks, DaemonStep(t) PROVE TypeOK'
<1>1. CASE Submitted(t)
  BY <1>1, WriteEffect DEF Submitted, TypeOK, Stages, Logs
<1>2. CASE Track(t)
  BY <1>2 DEF Track, TypeOK, Stages
<1>3. CASE TrackRefused(t)
  BY <1>3 DEF TrackRefused, TypeOK, Stages
<1>4. CASE PollEnded(t)
  BY <1>4, FoundTypes DEF PollEnded, Verdicts, Outcomes
<1>5. CASE PollRunning(t)
  BY <1>5, TaskAssumption DEF PollRunning, TypeOK
<1>6. CASE PollMissed(t)
  <2>1. CASE missed[t] + 1 >= MaxMisses
    BY <1>6, <2>1, FoundTypes DEF PollMissed, Outcomes
  <2>2. CASE ~(missed[t] + 1 >= MaxMisses)
    <3>1. missed[t] + 1 \in 0..MaxMisses - 1
      BY <2>2, TaskAssumption DEF TypeOK
    <3>2. QED
      BY <1>6, <2>2, <3>1 DEF PollMissed, TypeOK
  <2>3. QED
    BY <2>1, <2>2
<1>7. CASE PollExpired(t)
  BY <1>7, FoundTypes DEF PollExpired, Outcomes
<1>8. CASE Record(t)
  <2>1. result[t] \in Outcomes
    BY <1>8 DEF Record, AllGood, Good, Truthful
  <2>2. QED
    BY <1>8, <2>1, WriteEffect DEF Record, TypeOK, Stages, Logs
<1>9. CASE Forget(t)
  BY <1>9 DEF Forget, TypeOK, Stages
<1>10. CASE ResumeWatching(t)
  BY <1>10 DEF ResumeWatching, TypeOK, Stages
<1>11. CASE ResumeClosed(t)
  BY <1>11, WriteEffect DEF ResumeClosed, TypeOK, Stages, Logs, Outcomes
<1>12. QED
  BY <1>1, <1>2, <1>3, <1>4, <1>5, <1>6, <1>7, <1>8, <1>9, <1>10, <1>11 DEF DaemonStep
LEMMA StepTypes == TypeOK /\ AllGood /\ [Next]_vars => TypeOK'
<1> SUFFICES ASSUME TypeOK, AllGood, [Next]_vars PROVE TypeOK'
  OBVIOUS
<1>1. CASE Restart
  BY <1>1, TaskAssumption DEF Restart, TypeOK, Stages
<1>2. ASSUME NEW t \in Tasks, Accept(t) PROVE TypeOK'
  BY <1>2 DEF Accept, TypeOK, Stages
<1>3. ASSUME NEW t \in Tasks, DaemonStep(t) PROVE TypeOK'
  BY <1>3, DaemonTypes
<1>4. ASSUME NEW t \in Tasks, TaskEnds(t) \/ DeadlinePasses(t) PROVE TypeOK'
  BY <1>4 DEF TaskEnds, DeadlinePasses, TypeOK
<1>5. CASE UNCHANGED vars
  BY <1>5 DEF vars, TypeOK
<1>6. QED
  BY <1>1, <1>2, <1>3, <1>4, <1>5 DEF Next

LEMMA InitHolds == Init => TypeOK /\ AllGood
<1> SUFFICES ASSUME Init PROVE TypeOK /\ AllGood
  OBVIOUS
<1>1. TypeOK
  BY TaskAssumption DEF Init, TypeOK, Stages
<1>2. \A t \in Tasks : Rows(t) = {} /\ result[t] = "none"
  BY DEF Init, Rows
<1>3. AllGood
  BY <1>2 DEF Init, AllGood, Good, Beginning, InOrder, Truthful, Kept
<1>4. QED
  BY <1>1, <1>3

-----------------------------------------------------------------------------
(* What is owed, in order and true: a step of the task itself.             *)

\* The watcher has found an outcome that is what happened.
LEMMA FoundGood ==
  ASSUME TypeOK, NEW t \in Tasks, Good(t), NEW outcome \in Outcomes, Found(t, outcome),
         watcher[t] = "polling",
         outcome = "ok" => pve[t] = "OK", outcome = "error" => pve[t] = "failed",
         UNCHANGED <<pve, log, pending, expired, tracked, swallowed, restarts>>
  PROVE  Good(t)'
<1>1. watcher'[t] = "recording" /\ result'[t] = outcome /\ Rows(t)' = Rows(t)
  BY DEF Found, TypeOK, Rows
<1>2. Beginning(t)' /\ InOrder(t)'
  BY <1>1 DEF Good, Beginning, InOrder
<1>3. Truthful(t)' /\ Kept(t)'
  BY <1>1 DEF Good, Truthful, Kept, Settled
<1>4. QED
  BY <1>2, <1>3 DEF Good

\* An outcome is appended, or the log refuses it.
LEMMA RecordGood ==
  ASSUME TypeOK, NEW t \in Tasks, Good(t), NEW outcome \in Outcomes, Write(t, outcome),
         watcher[t] \in {"recording", "owed"}, watcher'[t] = "recorded",
         outcome = "ok" => pve[t] = "OK", outcome = "error" => pve[t] = "failed",
         result'[t] \in {result[t], "none"}, UNCHANGED <<pve, pending, tracked>>
  PROVE  Good(t)'
<1>1. /\ swallowed \subseteq swallowed' /\ (log'[t] # <<>> \/ t \in swallowed')
      /\ (log[t] # <<>> => log'[t] # <<>> /\ log'[t][1] = log[t][1])
      /\ Rows(t) \subseteq Rows(t)' /\ Rows(t)' \subseteq Rows(t) \cup {outcome}
      /\ outcome \in Rows(t)' \/ t \in swallowed'
  BY WriteEffect
<1>2. log[t] # <<>> \/ t \in swallowed
  BY DEF Good, InOrder
<1>3. Beginning(t)'
  BY DEF Good, Beginning
<1>4. InOrder(t)'
  BY <1>1, <1>2 DEF Good, InOrder
<1>5. Truthful(t)'
  BY <1>1 DEF Good, Truthful
<1>6. Kept(t)'
  BY <1>1 DEF Kept, Settled
<1>7. QED
  BY <1>3, <1>4, <1>5, <1>6 DEF Good

LEMMA DaemonGood == ASSUME TypeOK, NEW t \in Tasks, Good(t), DaemonStep(t) PROVE Good(t)'
<1> USE DEF Good
<1>1. CASE Submitted(t)
  <2>1. /\ swallowed \subseteq swallowed' /\ (log'[t] # <<>> \/ t \in swallowed')
        /\ (log[t] = <<>> /\ log'[t] # <<>> => log'[t][1] = "submitted")
        /\ Rows(t) \subseteq Rows(t)' /\ Rows(t)' \subseteq Rows(t) \cup {"submitted"}
    BY <1>1, WriteEffect DEF Submitted
  <2>2. /\ watcher[t] = "submitting" /\ watcher'[t] = "logged"
        /\ UNCHANGED <<pve, pending, result, tracked>>
    BY <1>1 DEF Submitted, TypeOK
  <2>3. Beginning(t)' /\ InOrder(t)'
    BY <2>1, <2>2 DEF Beginning, InOrder
  <2>4. Truthful(t)'
    BY <2>1, <2>2 DEF Truthful
  <2>5. Kept(t)'
    BY <2>1, <2>2 DEF Kept, Settled, Beginning
  <2>6. QED
    BY <2>3, <2>4, <2>5
<1>2. CASE Track(t)
  <2>1. Rows(t)' = Rows(t) /\ watcher'[t] = "polling"
    BY <1>2 DEF Track, Rows, TypeOK
  <2>2. QED
    BY <1>2, <2>1 DEF Track, Beginning, InOrder, Truthful, Kept, Settled
<1>3. CASE TrackRefused(t)
  <2>1. Rows(t)' = Rows(t) /\ watcher'[t] = "none"
    BY <1>3 DEF TrackRefused, Rows, TypeOK
  <2>2. QED
    BY <1>3, <2>1 DEF TrackRefused, Beginning, InOrder, Truthful, Kept, Settled
<1>4. CASE PollEnded(t)
  <2>1. PICK outcome \in Verdicts(t) : Found(t, outcome)
    BY <1>4 DEF PollEnded
  <2>2. /\ outcome \in Outcomes
        /\ outcome = "ok" => pve[t] = "OK"
        /\ outcome = "error" => pve[t] = "failed"
    BY DEF Verdicts, Outcomes
  <2>3. QED
    BY <1>4, <2>1, <2>2, FoundGood DEF PollEnded
<1>5. CASE PollRunning(t)
  BY <1>5, OthersGood DEF PollRunning
<1>6. CASE PollMissed(t)
  <2>1. CASE missed[t] + 1 >= MaxMisses
    BY <1>6, <2>1, FoundGood DEF PollMissed, Outcomes
  <2>2. CASE ~(missed[t] + 1 >= MaxMisses)
    BY <1>6, <2>2, OthersGood DEF PollMissed
  <2>3. QED
    BY <2>1, <2>2
<1>7. CASE PollExpired(t)
  BY <1>7, FoundGood DEF PollExpired, Outcomes
<1>8. CASE Record(t)
  <2>1. /\ result[t] \in Outcomes /\ (result[t] = "ok" => pve[t] = "OK")
        /\ (result[t] = "error" => pve[t] = "failed")
    BY <1>8 DEF Record, Truthful
  <2>2. watcher[t] = "recording" /\ watcher'[t] = "recorded" /\ result'[t] = "none"
    BY <1>8 DEF Record, TypeOK
  <2>3. QED
    BY <1>8, <2>1, <2>2, RecordGood DEF Record
<1>9. CASE Forget(t)
  <2>1. Rows(t)' = Rows(t) /\ watcher'[t] = "none" /\ watcher[t] = "recorded"
    BY <1>9 DEF Forget, Rows, TypeOK
  <2>2. pending' \subseteq pending /\ UNCHANGED <<pve, log, result, tracked, swallowed>>
    BY <1>9 DEF Forget
  <2>3. Beginning(t)' /\ InOrder(t)'
    BY <2>1, <2>2 DEF Beginning, InOrder
  <2>4. Truthful(t)' /\ Kept(t)'
    BY <2>1, <2>2 DEF Truthful, Kept, Settled
  <2>5. QED
    BY <2>3, <2>4
<1>10. CASE ResumeWatching(t)
  <2>1. Rows(t)' = Rows(t) /\ watcher'[t] = "polling" /\ watcher[t] = "owed"
    BY <1>10 DEF ResumeWatching, Rows, TypeOK
  <2>2. QED
    BY <1>10, <2>1 DEF ResumeWatching, Beginning, InOrder, Truthful, Kept, Settled
<1>11. CASE ResumeClosed(t)
  <2>1. PICK outcome \in {"timeout", "unknown"} : Write(t, outcome)
    BY <1>11 DEF ResumeClosed
  <2>2. watcher[t] = "owed" /\ watcher'[t] = "recorded" /\ UNCHANGED <<pve, pending, result, tracked>>
    BY <1>11 DEF ResumeClosed, TypeOK
  <2>3. QED
    BY <2>1, <2>2, RecordGood DEF Outcomes
<1>12. QED
  BY <1>1, <1>2, <1>3, <1>4, <1>5, <1>6, <1>7, <1>8, <1>9, <1>10, <1>11 DEF DaemonStep

\* A step of the daemon touches no other task.
LEMMA DaemonLocal ==
  ASSUME TypeOK, AllGood, NEW t \in Tasks, DaemonStep(t), NEW s \in Tasks \ {t}
  PROVE  /\ pve'[s] = pve[s] /\ log'[s] = log[s] /\ watcher'[s] = watcher[s] /\ result'[s] = result[s]
         /\ s \in pending' <=> s \in pending
         /\ s \in tracked' <=> s \in tracked
         /\ s \in swallowed' <=> s \in swallowed
<1>1. CASE Submitted(t)
  BY <1>1, WriteEffect DEF Submitted, TypeOK
<1>2. CASE Track(t) \/ TrackRefused(t)
  BY <1>2 DEF Track, TrackRefused, TypeOK
<1>3. CASE PollEnded(t) \/ PollRunning(t) \/ PollMissed(t) \/ PollExpired(t)
  BY <1>3 DEF PollEnded, PollRunning, PollMissed, PollExpired, Found, TypeOK
<1>4. CASE Record(t)
  <2>1. result[t] \in Outcomes
    BY <1>4 DEF Record, AllGood, Good, Truthful
  <2>2. QED
    BY <1>4, <2>1, WriteEffect DEF Record, TypeOK
<1>5. CASE Forget(t) \/ ResumeWatching(t)
  BY <1>5 DEF Forget, ResumeWatching, TypeOK
<1>6. CASE ResumeClosed(t)
  BY <1>6, WriteEffect DEF ResumeClosed, TypeOK, Outcomes
<1>7. QED
  BY <1>1, <1>2, <1>3, <1>4, <1>5, <1>6 DEF DaemonStep

LEMMA StepGood == TypeOK /\ AllGood /\ [Next]_vars => AllGood'
<1> SUFFICES ASSUME TypeOK, AllGood, [Next]_vars, NEW s \in Tasks PROVE Good(s)'
  BY DEF AllGood
<1>1. Good(s)
  BY DEF AllGood
<1>2. CASE Restart
  <2>1. /\ watcher'[s] = (IF s \in pending THEN "owed" ELSE "none") /\ result'[s] = "none"
        /\ Rows(s)' = Rows(s) /\ UNCHANGED <<pve, log, pending, tracked, swallowed>>
    BY <1>2 DEF Restart, Rows
  <2>2. Beginning(s)' /\ InOrder(s)'
    BY <1>1, <2>1 DEF Good, Beginning, InOrder
  <2>3. Truthful(s)' /\ Kept(s)'
    BY <1>1, <2>1 DEF Good, Truthful, Kept, Settled
  <2>4. QED
    BY <2>2, <2>3 DEF Good
<1>3. ASSUME NEW t \in Tasks, Accept(t) PROVE Good(s)'
  <2>1. CASE s = t
    <3>1. /\ watcher'[s] = "submitting" /\ pve'[s] = "running" /\ pve[s] = "none" /\ Rows(s)' = Rows(s)
          /\ UNCHANGED <<log, pending, result, tracked, swallowed>>
      BY <1>3, <2>1 DEF Accept, TypeOK, Rows
    <3>2. Beginning(s)' /\ InOrder(s)'
      BY <1>1, <3>1 DEF Good, Beginning, InOrder
    <3>3. Truthful(s)' /\ Kept(s)'
      BY <1>1, <3>1 DEF Good, Beginning, Truthful, Kept, Settled
    <3>4. QED
      BY <3>2, <3>3 DEF Good
  <2>2. CASE s # t
    BY <1>1, <1>3, <2>2, OthersGood DEF Accept, TypeOK
  <2>3. QED
    BY <2>1, <2>2
<1>4. ASSUME NEW t \in Tasks, DaemonStep(t) PROVE Good(s)'
  <2>1. CASE s = t
    BY <1>1, <1>4, <2>1, DaemonGood
  <2>2. CASE s # t
    BY <1>1, <1>4, <2>2, DaemonLocal, OthersGood
  <2>3. QED
    BY <2>1, <2>2
<1>5. ASSUME NEW t \in Tasks, TaskEnds(t) PROVE Good(s)'
  <2>1. CASE s = t
    <3>1. /\ pve[s] = "running" /\ pve'[s] \in {"OK", "failed"} /\ Rows(s)' = Rows(s)
          /\ UNCHANGED <<log, watcher, pending, result, tracked, swallowed>>
      BY <1>5, <2>1 DEF TaskEnds, TypeOK, Rows
    <3>2. Beginning(s)' /\ InOrder(s)'
      BY <1>1, <3>1 DEF Good, Beginning, InOrder
    <3>3. Truthful(s)' /\ Kept(s)'
      BY <1>1, <3>1 DEF Good, Truthful, Kept, Settled
    <3>4. QED
      BY <3>2, <3>3 DEF Good
  <2>2. CASE s # t
    BY <1>1, <1>5, <2>2, OthersGood DEF TaskEnds, TypeOK
  <2>3. QED
    BY <2>1, <2>2
<1>6. ASSUME NEW t \in Tasks, DeadlinePasses(t) PROVE Good(s)'
  BY <1>1, <1>6, OthersGood DEF DeadlinePasses
<1>7. CASE UNCHANGED vars
  BY <1>1, <1>7, OthersGood DEF vars
<1>8. QED
  BY <1>2, <1>3, <1>4, <1>5, <1>6, <1>7 DEF Next

-----------------------------------------------------------------------------
(* Types are kept (task_outcome.py, audit.write, pending_tasks). *)
THEOREM TaskTypes == Spec => []TypeOK
<1>1. QED
  BY InitHolds, StepTypes, StepGood, PTL DEF Spec

(* Where tracked tasks are remembered, what is not in the log yet is in
   pending_tasks, through restarts and failed deletes (track, _watch, _forget). *)
THEOREM OwedIsKept == Remembers => (Spec => []OutcomeOwed)
<1> SUFFICES ASSUME Remembers PROVE Spec => []OutcomeOwed
  OBVIOUS
<1>1. TypeOK /\ AllGood => OutcomeOwed
  BY DEF AllGood, Good, Kept, OutcomeOwed, TypeOK
<1>2. QED
  BY InitHolds, StepTypes, StepGood, <1>1, PTL DEF Spec

(* The log has the submission first, and no outcome that is not what happened
   (submitted, _poll, _outcome, resume_on_startup). *)
THEOREM LogIsTrue == Spec => []TruthInOrder
<1>1. AllGood => TruthInOrder
  <2> SUFFICES ASSUME AllGood, NEW t \in Tasks
               PROVE  /\ Settled(t) /\ t \notin swallowed => log[t][1] = "submitted"
                      /\ "ok" \in Rows(t) => pve[t] = "OK"
                      /\ "error" \in Rows(t) => pve[t] = "failed"
    BY DEF TruthInOrder
  <2>1. log[t] = <<>> => Rows(t) = {}
    BY DEF Rows
  <2>2. QED
    BY <2>1 DEF AllGood, Good, InOrder, Truthful, Settled
<1>2. QED
  BY InitHolds, StepTypes, StepGood, <1>1, PTL DEF Spec

(* A row of pending_tasks that nobody works on has its outcome in the log
   (_forget, resume_on_startup). *)
THEOREM NoRowLeft == Spec => []NoOrphanRow
<1>1. TypeOK /\ AllGood => NoOrphanRow
  BY DEF AllGood, Good, Kept, NoOrphanRow, TypeOK
<1>2. QED
  BY InitHolds, StepTypes, StepGood, <1>1, PTL DEF Spec
=============================================================================
