--------------------------- MODULE AuditForwarder ---------------------------
(***************************************************************************)
(* Audit rows on their way to a collector (server/audit_forwarder.py, the  *)
(* forwarding half of audit.write in server/audit.py) and the request that *)
(* changes where they go (put_handler of server/audit_forwarder_admin.py). *)
(*                                                                         *)
(* A forwarder is a bounded queue and a task; the module-level _forwarder  *)
(* is the one that audit.write submits to.  A change of the settings       *)
(* mutates the configuration in place, saves it, stops the forwarder it    *)
(* found, which is awaited, and builds the next.  Nothing keeps two        *)
(* changes apart.                                                          *)
(***************************************************************************)
EXTENDS Integers, Sequences

CONSTANTS
  Puts,       \* bound: changes of the settings, each made once
  Boot,       \* the start-up
  Nobody,
  MaxRows,    \* bound: audit rows, numbered as they are written
  QueueSize   \* DEFAULT_QUEUE_SIZE

ASSUME ForwarderAssumption ==
  /\ Boot \notin Puts /\ Nobody \notin Puts \cup {Boot}
  /\ MaxRows \in Nat /\ QueueSize \in Nat \ {0}

VARIABLES
  mem,      \* auth.forward of the configuration object every handler has
  file,     \* the same of config.yaml
  current,  \* _forwarder, named for the request that built it
  fwd,      \* the forwarders
  req,      \* the requests: how far each is, the forwarder it found
  next,     \* the number of the next row
  top,      \* history: the newest row that has gone out
  leaked,   \* history: forwarders that were taken out of their place and not stopped
  refused   \* history: since the last save, mem was changed by a request refused

vars == <<mem, file, current, fwd, req, next, top, leaked, refused>>

Settings   == {"off", "udp", "tcp"}
Forwarders == Puts \cup {Boot}

\* Where _run is; over: it has returned, cancelled: it was cancelled in its back-off.
Places == {"none", "connecting", "waiting", "sending", "backoff", "over", "cancelled"}
Alive  == {"connecting", "waiting", "sending", "backoff"}

NoForwarder == [pc |-> "none", via |-> "off", running |-> FALSE, hand |-> 0, queue |-> <<>>]

\* AuditForwarder(...) and start().
Built(via) == [NoForwarder EXCEPT !.pc = IF via = "tcp" THEN "connecting" ELSE "waiting",
                                  !.via = via, !.running = TRUE]

-----------------------------------------------------------------------------
(* audit.write and submit().                                               *)

\* The oldest row makes room for the newest.
Queued(q, row) == Append(IF Len(q) < QueueSize THEN q ELSE Tail(q), row)

Write ==
  /\ next <= MaxRows /\ next' = next + 1
  /\ fwd' = IF current = Nobody THEN fwd
            ELSE [fwd EXCEPT ![current].queue = Queued(@, next)]
  /\ UNCHANGED <<mem, file, current, req, top, leaked, refused>>

-----------------------------------------------------------------------------
(* _run, _run_udp and _run_tcp.                                            *)

Settled == UNCHANGED <<mem, file, current, req, next, leaked, refused>>

Connect(f) ==
  /\ fwd[f].pc = "connecting"
  /\ fwd' = [fwd EXCEPT ![f].pc = IF fwd[f].running THEN "waiting" ELSE "over"]
  /\ Settled /\ UNCHANGED top

ConnectFails(f) ==
  /\ fwd[f].pc = "connecting"
  /\ fwd' = [fwd EXCEPT ![f].pc = "backoff"]
  /\ Settled /\ UNCHANGED top

Retry(f) ==
  /\ fwd[f].pc = "backoff"
  /\ fwd' = [fwd EXCEPT ![f].pc = IF fwd[f].running THEN "connecting" ELSE "over"]
  /\ Settled /\ UNCHANGED top

\* queue.get(); a forwarder that is being stopped still takes the row it waits for.
Take(f) ==
  /\ fwd[f].pc = "waiting" /\ fwd[f].queue # <<>>
  /\ fwd' = [fwd EXCEPT ![f].pc = "sending", ![f].hand = Head(fwd[f].queue), ![f].queue = Tail(@)]
  /\ Settled /\ UNCHANGED top

\* The loop looks at _running after each row, and leaves the rest of the queue.
SendDone(f) ==
  /\ fwd[f].pc = "sending"
  /\ top' = IF fwd[f].hand > top THEN fwd[f].hand ELSE top
  /\ fwd' = [fwd EXCEPT ![f].hand = 0, ![f].pc = IF fwd[f].running THEN "waiting" ELSE "over"]
  /\ Settled

\* Variant: a row that could not be sent goes back to the queue.
SendFails_Mutant(f) ==
  /\ fwd[f].pc = "sending"
  /\ fwd' = [fwd EXCEPT ![f].hand = 0, ![f].queue = Append(@, fwd[f].hand),
               ![f].pc = IF fwd[f].via = "tcp" THEN "backoff"
                         ELSE IF fwd[f].running THEN "waiting" ELSE "over"]
  /\ Settled /\ UNCHANGED top

\* The row is lost; a TCP connection is made anew.
SendFails(f) ==
  /\ fwd[f].pc = "sending"
  /\ fwd' = [fwd EXCEPT ![f].hand = 0,
               ![f].pc = IF fwd[f].via = "tcp" THEN "backoff"
                         ELSE IF fwd[f].running THEN "waiting" ELSE "over"]
  /\ Settled /\ UNCHANGED top

-----------------------------------------------------------------------------
(* put_handler.                                                            *)

\* A field is refused after another was assigned (400), or the save fails (500).
Refuse(r) ==
  /\ req[r].stage = "idle"
  /\ mem' \in Settings /\ refused' = TRUE
  /\ req' = [req EXCEPT ![r].stage = "done"]
  /\ UNCHANGED <<file, current, fwd, next, top, leaked>>

\* The fields are assigned, and all of them saved.
Save == mem' \in Settings /\ file' = mem' /\ refused' = FALSE

\* stop() clears _running of the forwarder it finds, and waits for its task.
Put(r) ==
  /\ req[r].stage = "idle" /\ current # Nobody
  /\ Save
  /\ req' = [req EXCEPT ![r] = [stage |-> "stopping", old |-> current]]
  /\ fwd' = [fwd EXCEPT ![current].running = FALSE]
  /\ UNCHANGED <<current, next, top, leaked>>

\* Variant: _forwarder is emptied only where a new one takes the place.
Install_Mutant(r, via) ==
  /\ current' = IF via = "off" THEN current ELSE r
  /\ fwd' = IF via = "off" THEN fwd ELSE [fwd EXCEPT ![r] = Built(via)]

\* set_forwarder(None), and the new one if there is to be one; nothing is awaited.
Install(r, via) ==
  /\ current' = IF via = "off" THEN Nobody ELSE r
  /\ fwd' = IF via = "off" THEN fwd ELSE [fwd EXCEPT ![r] = Built(via)]

\* With nothing to stop, the request is over at once.
PutFresh(r) ==
  /\ req[r].stage = "idle" /\ current = Nobody
  /\ Save /\ Install(r, mem')
  /\ req' = [req EXCEPT ![r].stage = "done"]
  /\ UNCHANGED <<next, top, leaked>>

\* wait_for gives up after 2 s and cancels the task: _run takes that for its end,
\* except in its back-off.
StopTimesOut(r) ==
  /\ req[r].stage = "stopping" /\ fwd[req[r].old].pc \in Alive
  /\ fwd' = [fwd EXCEPT ![req[r].old].hand = 0,
                        ![req[r].old].pc = IF @ = "backoff" THEN "cancelled" ELSE "over"]
  /\ req' = [req EXCEPT ![r].stage = "building"]
  /\ UNCHANGED <<mem, file, current, next, top, leaked, refused>>

\* Whoever else waits for a task that was cancelled is cancelled too: the handler
\* catches Exception, and CancelledError is none.
Cancelled(r) ==
  /\ req[r].stage = "stopping" /\ fwd[req[r].old].pc = "cancelled"
  /\ req' = [req EXCEPT ![r].stage = "done"]
  /\ UNCHANGED <<mem, file, current, fwd, next, top, leaked, refused>>

Stopped(r) == \/ req[r].stage = "building"
              \/ req[r].stage = "stopping" /\ fwd[req[r].old].pc = "over"

\* The new forwarder is built from the configuration as it is now.
Rebuild(r) ==
  /\ Stopped(r)
  /\ Install(r, mem)
  /\ leaked' = leaked \cup ({current} \ {Nobody, req[r].old})
  /\ req' = [req EXCEPT ![r].stage = "done"]
  /\ UNCHANGED <<mem, file, next, top, refused>>

-----------------------------------------------------------------------------
\* The start-up builds a forwarder if the file says so.
Init ==
  /\ mem \in Settings /\ file = mem
  /\ current = IF mem = "off" THEN Nobody ELSE Boot
  /\ fwd = [f \in Forwarders |-> IF f = Boot /\ mem # "off" THEN Built(mem) ELSE NoForwarder]
  /\ req = [r \in Puts |-> [stage |-> "idle", old |-> Nobody]]
  /\ next = 1 /\ top = 0 /\ leaked = {} /\ refused = FALSE

Run(f) == Connect(f) \/ ConnectFails(f) \/ Retry(f) \/ Take(f) \/ SendDone(f) \/ SendFails(f)

Handle(r) == Refuse(r) \/ Put(r) \/ PutFresh(r) \/ StopTimesOut(r) \/ Cancelled(r) \/ Rebuild(r)

Next ==
  \/ Write
  \/ \E f \in Forwarders : Run(f)
  \/ \E r \in Puts : Handle(r)

Spec == Init /\ [][Next]_vars

-----------------------------------------------------------------------------
Stages == {"idle", "stopping", "building", "done"}

(* Types of the state. *)
TypeOK ==
  /\ mem \in Settings /\ file \in Settings
  /\ current \in Forwarders \cup {Nobody}
  /\ fwd \in [Forwarders -> [pc : Places, via : Settings, running : BOOLEAN,
                             hand : Nat, queue : Seq(Nat)]]
  /\ req \in [Puts -> [stage : Stages, old : Forwarders \cup {Nobody}]]
  /\ \A r \in Puts : req[r].stage \in {"stopping", "building"} => req[r].old \in Forwarders
  /\ next \in Nat /\ top \in Nat
  /\ leaked \subseteq Forwarders /\ refused \in BOOLEAN

AtRest == \A r \in Puts : req[r].stage \in {"idle", "done"}

\* The forwarder in place is the one the settings s ask for, and it runs.
InPlace(s) == IF s = "off" THEN current = Nobody
              ELSE /\ current # Nobody /\ fwd[current].via = s
                   /\ fwd[current].running /\ fwd[current].pc \in Alive

(* When no change is under way, rows go where config.yaml says, however the changes
   overlapped on the stop of the old forwarder, and though one of them may have been
   cancelled with it; excepted is a configuration that a refused request has changed
   and none has saved (put_handler, stop). *)
ForwarderMatches == AtRest /\ ~refused => InPlace(file)

(* "Drop the oldest, enqueue the newest": a forwarder that has not been lost sight of
   has only rows in hand or queued that are newer than all that went out, in the
   order they were written, without a gap, and never more than the queue holds,
   through overflows, failed sends, back-offs and replacements (submit, _run). *)
InOrder ==
  \A f \in Forwarders \ leaked : fwd[f].pc \in Alive =>
    LET q == fwd[f].queue IN
      /\ Len(q) <= QueueSize
      /\ fwd[f].hand # 0 => top < fwd[f].hand
      /\ \A i \in 1..Len(q) : top < q[i] /\ fwd[f].hand < q[i]
      /\ \A i \in 1..Len(q) : q[i] = q[1] + i - 1

(* "It owns one queue, one transport, one background loop": no other forwarder is
   alive than the one in place. *)
OneForwarder == \A f \in Forwarders : fwd[f].pc \in Alive => f = current

(* "Stopping it drains the queue with a 2 s budget": a forwarder that ended within
   the budget has nothing left in its queue. *)
StopDrains == \A r \in Puts : req[r].stage = "stopping" /\ fwd[req[r].old].pc = "over"
                                => fwd[req[r].old].queue = <<>>
=============================================================================
