---------------------------- MODULE TaskOutcome ----------------------------
(***************************************************************************)
(* Following a submitted PVE task to its outcome (server/task_outcome.py,  *)
(* with audit.write and the table pending_tasks).                          *)
(*                                                                         *)
(* A handler that got a task id (UPID) from PVE records "submitted" in the *)
(* audit log and starts a watcher; the watcher polls PVE until the task    *)
(* ends, its deadline passes or PVE cannot be asked, appends the outcome   *)
(* to the log and deletes the task's row of pending_tasks.  After a        *)
(* restart the rows that are left are picked up again.                     *)
(*                                                                         *)
(* Nothing in server/ calls _remember, which inserts the row; its tests    *)
(* do.  Remembers says whether it is called when a task is tracked.        *)
(***************************************************************************)
EXTENDS Integers, Sequences, FiniteSets

CONSTANTS
  Tasks,        \* tasks that may be submitted
  MaxWatchers,  \* MAX_WATCHERS
  MaxMisses,    \* polls in a row without an answer before giving up: 10
  Remembers,    \* whether tracking a task inserts its pending_tasks row
  Unlucky,      \* bound: tasks whose inserts into the audit log may fail
  MaxRestarts   \* bound: restarts of the daemon

ASSUME TaskAssumption ==
  /\ MaxWatchers \in Nat \ {0} /\ MaxMisses \in Nat \ {0} /\ MaxRestarts \in Nat
  /\ Remembers \in BOOLEAN /\ Unlucky \subseteq Tasks

Outcomes == {"ok", "error", "timeout", "unknown"}

VARIABLES
  pve,       \* what the task is doing, in PVE
  log,       \* the task's rows of the audit log, in order
  pending,   \* pending_tasks
  watcher,   \* what the daemon is doing about the task
  result,    \* the outcome its watcher has found
  missed,    \* polls in a row without an answer
  expired,   \* tasks whose deadline has passed
  tracked,   \* history: tasks a watcher was started for
  swallowed, \* history: tasks a row of which never got into the audit log
  restarts

vars == <<pve, log, pending, watcher, result, missed, expired, tracked, swallowed, restarts>>

\* "submitting" and "logged" are the handler's, "owed" is resume_on_startup's.
Stages == {"none", "submitting", "logged", "polling", "recording", "recorded", "owed"}

Init ==
  /\ pve = [t \in Tasks |-> "none"]
  /\ log = [t \in Tasks |-> <<>>]
  /\ pending = {} /\ expired = {} /\ tracked = {} /\ swallowed = {}
  /\ watcher = [t \in Tasks |-> "none"]
  /\ result = [t \in Tasks |-> "none"]
  /\ missed = [t \in Tasks |-> 0]
  /\ restarts = 0

Watched == {t \in Tasks : watcher[t] \in {"polling", "recording", "recorded"}}

\* audit.write: a failed insert is logged and swallowed.
Write(t, row) ==
  \/ log' = [log EXCEPT ![t] = Append(@, row)] /\ UNCHANGED swallowed
  \/ t \in Unlucky /\ swallowed' = swallowed \cup {t} /\ UNCHANGED log

-----------------------------------------------------------------------------
(* The handler: submitted() and track().                                   *)

\* PVE has accepted the request.
Accept(t) ==
  /\ pve[t] = "none"
  /\ pve' = [pve EXCEPT ![t] = "running"]
  /\ watcher' = [watcher EXCEPT ![t] = "submitting"]
  /\ UNCHANGED <<log, pending, result, missed, expired, tracked, swallowed, restarts>>

Submitted(t) ==
  /\ watcher[t] = "submitting"
  /\ Write(t, "submitted")
  /\ watcher' = [watcher EXCEPT ![t] = "logged"]
  /\ UNCHANGED <<pve, pending, result, missed, expired, tracked, restarts>>

Track(t) ==
  /\ watcher[t] = "logged"
  /\ Cardinality(Watched) < MaxWatchers
  /\ watcher' = [watcher EXCEPT ![t] = "polling"]
  /\ pending' = IF Remembers THEN pending \cup {t} ELSE pending
  /\ tracked' = tracked \cup {t}
  /\ UNCHANGED <<pve, log, result, missed, expired, swallowed, restarts>>

\* The backstop: too many watchers, and the task is let go.
TrackRefused(t) ==
  /\ watcher[t] = "logged"
  /\ Cardinality(Watched) >= MaxWatchers
  /\ watcher' = [watcher EXCEPT ![t] = "none"]
  /\ UNCHANGED <<pve, log, pending, result, missed, expired, tracked, swallowed, restarts>>

-----------------------------------------------------------------------------
(* The watcher: _poll, _outcome and _watch.                                *)

\* _poll returns: its count of misses is gone.
Found(t, outcome) ==
  /\ watcher' = [watcher EXCEPT ![t] = "recording"]
  /\ result' = [result EXCEPT ![t] = outcome]
  /\ missed' = [missed EXCEPT ![t] = 0]

\* Variant: whatever PVE answers ends the poll.
PollEnded_Mutant(t) ==
  /\ watcher[t] = "polling" /\ t \notin expired
  /\ Found(t, IF pve[t] = "failed" THEN "error" ELSE "ok")
  /\ UNCHANGED <<pve, log, pending, expired, tracked, swallowed, restarts>>

\* What an answer that is not "running" says: the exit status of a task that has
\* ended, or nothing (an answer without a status, or without an exit status).
Verdicts(t) ==
  {"unknown"} \cup {o \in {"ok", "error"} : pve[t] = IF o = "ok" THEN "OK" ELSE "failed"}

PollEnded(t) ==
  /\ watcher[t] = "polling" /\ t \notin expired
  /\ \E outcome \in Verdicts(t) : Found(t, outcome)
  /\ UNCHANGED <<pve, log, pending, expired, tracked, swallowed, restarts>>

PollRunning(t) ==
  /\ watcher[t] = "polling" /\ t \notin expired
  /\ pve[t] = "running"
  /\ missed' = [missed EXCEPT ![t] = 0]
  /\ UNCHANGED <<pve, log, pending, watcher, result, expired, tracked, swallowed, restarts>>

PollMissed(t) ==
  /\ watcher[t] = "polling" /\ t \notin expired
  /\ IF missed[t] + 1 >= MaxMisses
     THEN Found(t, "unknown")
     ELSE missed' = [missed EXCEPT ![t] = @ + 1] /\ UNCHANGED <<watcher, result>>
  /\ UNCHANGED <<pve, log, pending, expired, tracked, swallowed, restarts>>

PollExpired(t) ==
  /\ watcher[t] = "polling" /\ t \in expired
  /\ Found(t, "timeout")
  /\ UNCHANGED <<pve, log, pending, expired, tracked, swallowed, restarts>>

\* Variant: the row is deleted first, and the outcome appended afterwards.
Record_Mutant(t) ==
  /\ watcher[t] = "recording"
  /\ pending' = pending \ {t}
  /\ watcher' = [watcher EXCEPT ![t] = "recorded"]
  /\ UNCHANGED <<pve, log, result, missed, expired, tracked, swallowed, restarts>>

Record(t) ==
  /\ watcher[t] = "recording"
  /\ Write(t, result[t])
  /\ watcher' = [watcher EXCEPT ![t] = "recorded"]
  /\ result' = [result EXCEPT ![t] = "none"]
  /\ UNCHANGED <<pve, pending, missed, expired, tracked, restarts>>

\* _forget, whether or not the insert into the log succeeded; a DELETE that fails
\* leaves the row.
Forget(t) ==
  /\ watcher[t] = "recorded"
  /\ pending' \in {pending, pending \ {t}}
  /\ watcher' = [watcher EXCEPT ![t] = "none"]
  /\ UNCHANGED <<pve, log, result, missed, expired, tracked, swallowed, restarts>>

-----------------------------------------------------------------------------
(* The daemon restarts.                                                    *)

\* Variant: the rows are not looked at.
Restart_Mutant ==
  /\ restarts < MaxRestarts /\ restarts' = restarts + 1
  /\ watcher' = [t \in Tasks |-> "none"]
  /\ missed' = [t \in Tasks |-> 0]
  /\ result' = [t \in Tasks |-> "none"]
  /\ UNCHANGED <<pve, log, pending, expired, tracked, swallowed>>

\* Handlers and watchers die, and resume_on_startup reads the rows.
Restart ==
  /\ restarts < MaxRestarts /\ restarts' = restarts + 1
  /\ watcher' = [t \in Tasks |-> IF t \in pending THEN "owed" ELSE "none"]
  /\ missed' = [t \in Tasks |-> 0]
  /\ result' = [t \in Tasks |-> "none"]
  /\ UNCHANGED <<pve, log, pending, expired, tracked, swallowed>>

ResumeWatching(t) ==
  /\ watcher[t] = "owed" /\ t \notin expired
  /\ watcher' = [watcher EXCEPT ![t] = "polling"]
  /\ UNCHANGED <<pve, log, pending, result, missed, expired, tracked, swallowed, restarts>>

\* Past its deadline, or its cluster is no longer configured.
ResumeClosed(t) ==
  /\ watcher[t] = "owed"
  /\ Write(t, IF t \in expired THEN "timeout" ELSE "unknown")
  /\ watcher' = [watcher EXCEPT ![t] = "recorded"]
  /\ UNCHANGED <<pve, pending, result, missed, expired, tracked, restarts>>

-----------------------------------------------------------------------------
(* PVE, and time.                                                          *)

TaskEnds(t) ==
  /\ pve[t] = "running"
  /\ \E end \in {"OK", "failed"} : pve' = [pve EXCEPT ![t] = end]
  /\ UNCHANGED <<log, pending, watcher, result, missed, expired, tracked, swallowed, restarts>>

DeadlinePasses(t) ==
  /\ t \in tracked \ expired
  /\ expired' = expired \cup {t}
  /\ UNCHANGED <<pve, log, pending, watcher, result, missed, tracked, swallowed, restarts>>

DaemonStep(t) ==
  \/ Submitted(t) \/ Track(t) \/ TrackRefused(t)
  \/ PollEnded(t) \/ PollRunning(t) \/ PollMissed(t) \/ PollExpired(t)
  \/ Record(t) \/ Forget(t)
  \/ ResumeWatching(t) \/ ResumeClosed(t)

Next ==
  \/ Restart
  \/ \E t \in Tasks : Accept(t) \/ DaemonStep(t) \/ TaskEnds(t) \/ DeadlinePasses(t)

Spec == Init /\ [][Next]_vars

\* The event loop runs every watcher, and time passes.
Fairness == \A t \in Tasks : WF_vars(DaemonStep(t)) /\ WF_vars(DeadlinePasses(t))
FairSpec == Spec /\ Fairness

-----------------------------------------------------------------------------

TypeOK ==
  /\ pve \in [Tasks -> {"none", "running", "OK", "failed"}]
  /\ log \in [Tasks -> Seq(Outcomes \cup {"submitted"})]
  /\ pending \subseteq Tasks /\ expired \subseteq Tasks
  /\ tracked \subseteq Tasks /\ swallowed \subseteq Unlucky
  /\ watcher \in [Tasks -> Stages]
  /\ result \in [Tasks -> Outcomes \cup {"none"}]
  /\ missed \in [Tasks -> 0..MaxMisses - 1]
  /\ restarts \in 0..MaxRestarts

Rows(t)    == {log[t][i] : i \in DOMAIN log[t]}
Settled(t) == Rows(t) \cap Outcomes # {}

\* The docstring of task_outcome.py says of pending_tasks "a daemon restart does
\* not lose them": a task that is tracked has its outcome in the audit log, or a
\* row of pending_tasks says that it is still owed.  Only a row the log refused
\* (_watch forgets the task all the same) is an exception.
OutcomeOwed == \A t \in tracked \ swallowed : Settled(t) \/ t \in pending

\* "Two rows now tell the truth in order": the submission comes first, and an
\* outcome that claims to know what happened is what happened, whatever was
\* polled, missed, or asked again after a restart.
TruthInOrder ==
  \A t \in Tasks :
    /\ Settled(t) /\ t \notin swallowed => log[t][1] = "submitted"
    /\ "ok" \in Rows(t) => pve[t] = "OK"
    /\ "error" \in Rows(t) => pve[t] = "failed"

\* "The table's contents are exactly outcomes we still owe": a row that nothing
\* in the daemon is working on is one whose outcome is already in the log.
NoOrphanRow ==
  \A t \in pending \ swallowed : watcher[t] \in {"none", "recorded"} => Settled(t)

\* Every task that is tracked gets its outcome, through restarts, whether or not
\* PVE ever answers.
OutcomeArrives == \A t \in Tasks : t \in tracked ~> Settled(t) \/ t \in swallowed
=============================================================================
