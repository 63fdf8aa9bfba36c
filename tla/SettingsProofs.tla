--------------------------- MODULE SettingsProofs ---------------------------
(***************************************************************************)
(* What runs is what was saved.  Two handlers replace running objects when *)
(* the configuration changes, the forwarder of audit rows and the roster   *)
(* of clusters; both await the end of what they replace, and nothing keeps *)
(* two changes apart.                                                      *)
(*                                                                         *)
(* For any number of changes of the settings, any queue and any number of  *)
(* rows: rows go where the file says when nothing is under way, and what   *)
(* a forwarder has still to send is newer than all that went out.          *)
(*                                                                         *)
(* For any number of clusters and of overlapping changes: when nothing is  *)
(* left to stop, the roster is what the latest version of the file says,   *)
(* and the page does not lose a cluster that was never disabled, but while *)
(* adapters are stopped.                                                   *)
(***************************************************************************)
EXTENDS AuditForwarder, Roster, FiniteSetTheorems, TLAPS

-----------------------------------------------------------------------------
(* The forwarder.                                                          *)

\* The rows a forwarder has in hand (0 for none) and in its queue.
Held(f) == {fwd[f].hand} \cup {fwd[f].queue[i] : i \in 1..Len(fwd[f].queue)}

\* The name of a forwarder is the request's that will build it.
Unbuilt == \A r \in Puts : req[r].stage # "done" => fwd[r].pc = "none" /\ r \notin leaked /\ r # current

\* What a request stops is built, told to stop, and ended before the request builds.
Stopping == \A r \in Puts : req[r].stage \in {"stopping", "building"} =>
              /\ fwd[req[r].old].pc # "none" /\ ~fwd[req[r].old].running
              /\ req[r].stage = "building" => fwd[req[r].old].pc \in {"over", "cancelled"}

\* Of the forwarders that are alive, all but the one in place were lost sight of.
OneInPlace == /\ current # Nobody => fwd[current].pc # "none" /\ current \notin leaked
              /\ \A f \in Forwarders \ leaked : fwd[f].pc \in Alive => f = current

\* A request that will come to build: it waits for a task that was not cancelled.
WillBuild(r) == \/ req[r].stage = "building"
                \/ req[r].stage = "stopping" /\ fwd[req[r].old].pc # "cancelled"

\* Whoever cancelled the task of the forwarder in place will replace it.
Killed == current # Nobody /\ fwd[current].pc = "cancelled"
            => \E r \in Puts : req[r].stage = "building"

\* Until something matches the saved settings, somebody is about to build it.
Pending == ~refused => mem = file /\ (InPlace(file) \/ \E r \in Puts : WillBuild(r))

Matching == Unbuilt /\ Stopping /\ OneInPlace /\ Killed /\ Pending

\* Every row that is held was written ...
Written == top < next /\ \A f \in Forwarders : \A x \in Held(f) : x < next

\* ... those of other forwarders before those of the one in place ...
Behind == current # Nobody => \A f \in Forwarders \ {current} :
            \A x \in Held(f), y \in Held(current) : y # 0 => x < y

\* ... whose newest is the newest there is.
Newest == \A f \in Forwarders \ leaked : fwd[f].pc \in Alive /\ fwd[f].queue # <<>>
            => fwd[f].queue[Len(fwd[f].queue)] = next - 1

Ordering == Written /\ Behind /\ Newest /\ InOrder

ForwarderType == [pc : Places, via : Settings, running : BOOLEAN, hand : Nat, queue : Seq(Nat)]

-----------------------------------------------------------------------------
(* Lemmas about the queue and about single steps.                          *)

\* What the queue looks like when a row has been put into it.
LEMMA QueuedFacts ==
  ASSUME NEW q \in Seq(Nat), NEW row \in Nat
  PROVE  LET p == Queued(q, row) IN
         /\ p \in Seq(Nat) /\ p # <<>> /\ p[Len(p)] = row
         /\ Len(q) <= QueueSize => Len(p) <= QueueSize
         /\ \A i \in 1..Len(p) : p[i] = row \/ \E j \in 1..Len(q) : p[i] = q[j]
         /\ (\A i \in 1..Len(q) : q[i] = q[1] + i - 1) /\ (q # <<>> => q[Len(q)] = row - 1)
              => \A i \in 1..Len(p) : p[i] = p[1] + i - 1
<1> DEFINE p == Queued(q, row)
<1>1. CASE Len(q) < QueueSize
  <2>1. p = Append(q, row)
    BY <1>1 DEF Queued
  <2>2. /\ p \in Seq(Nat) /\ Len(p) = Len(q) + 1 /\ p[Len(q) + 1] = row
        /\ \A i \in 1..Len(q) : p[i] = q[i]
    BY <2>1
  <2> HIDE DEF p
  <2>3. p # <<>> /\ p[Len(p)] = row /\ Len(p) <= QueueSize
    BY <1>1, <2>2, ForwarderAssumption
  <2>4. \A i \in 1..Len(p) : p[i] = row \/ \E j \in 1..Len(q) : p[i] = q[j]
    BY <2>2
  <2>5. ASSUME \A i \in 1..Len(q) : q[i] = q[1] + i - 1, q # <<>> => q[Len(q)] = row - 1,
               NEW i \in 1..Len(p)
        PROVE  p[i] = p[1] + i - 1
    <3>1. CASE q = <<>>
      BY <2>2, <2>5, <3>1
    <3>2. CASE q # <<>>
      <4>1. Len(q) \in 1..Len(q) /\ 1 \in 1..Len(q) /\ q[1] \in Nat
        BY <3>2
      <4>2. p[1] = q[1] /\ q[Len(q)] = q[1] + Len(q) - 1 /\ q[Len(q)] = row - 1
        BY <2>2, <2>5, <3>2, <4>1
      <4>3. CASE i = Len(q) + 1
        BY <2>2, <4>1, <4>2, <4>3
      <4>4. CASE i # Len(q) + 1
        <5>1. i \in 1..Len(q)
          BY <2>2, <2>5, <4>4
        <5>2. p[i] = q[i] /\ q[i] = q[1] + i - 1
          BY <2>2, <2>5, <5>1
        <5>3. QED
          BY <4>2, <5>2
      <4>5. QED
        BY <4>3, <4>4
    <3>3. QED
      BY <3>1, <3>2
  <2>6. QED
    BY <2>2, <2>3, <2>4, <2>5 DEF p
<1>2. CASE ~(Len(q) < QueueSize)
  <2> DEFINE t == Tail(q)
  <2>1. q # <<>> /\ Len(q) \in Nat \ {0}
    BY <1>2, ForwarderAssumption
  <2>2. t \in Seq(Nat) /\ Len(t) = Len(q) - 1 /\ \A i \in 1..Len(t) : t[i] = q[i+1]
    BY <2>1
  <2>3. p = Append(t, row)
    BY <1>2 DEF Queued
  <2> HIDE DEF t
  <2>4. /\ p \in Seq(Nat) /\ Len(p) = Len(q) /\ p[Len(q)] = row
        /\ \A i \in 1..Len(q)-1 : p[i] = q[i+1]
    BY <2>1, <2>2, <2>3
  <2> HIDE DEF p
  <2>5. \A i \in 1..Len(p) : p[i] = row \/ \E j \in 1..Len(q) : p[i] = q[j]
    <3> SUFFICES ASSUME NEW i \in 1..Len(p), p[i] # row PROVE \E j \in 1..Len(q) : p[i] = q[j]
      OBVIOUS
    <3>1. i \in 1..Len(q)-1 /\ i + 1 \in 1..Len(q)
      BY <2>1, <2>4
    <3>2. QED
      BY <2>4, <3>1
  <2>6. ASSUME \A i \in 1..Len(q) : q[i] = q[1] + i - 1, q # <<>> => q[Len(q)] = row - 1,
               NEW i \in 1..Len(p)
        PROVE  p[i] = p[1] + i - 1
    <3>1. q[1] \in Nat /\ Len(q) \in 1..Len(q) /\ q[Len(q)] = row - 1 /\ q[Len(q)] = q[1] + Len(q) - 1
      BY <2>1, <2>6
    <3>2. \A k \in 1..Len(q)-1 : p[k] = q[1] + k
      BY <2>1, <2>4, <2>6, <3>1
    <3>3. p[Len(q)] = q[1] + Len(q)
      BY <2>1, <2>4, <3>1
    <3>4. \A k \in 1..Len(q) : p[k] = q[1] + k
      BY <2>1, <3>2, <3>3
    <3>5. QED
      BY <2>1, <2>4, <3>1, <3>4
  <2>7. p # <<>> /\ p[Len(p)] = row
    BY <2>1, <2>4
  <2>8. QED
    BY <2>4, <2>5, <2>6, <2>7 DEF p
<1>3. QED
  BY <1>1, <1>2

\* What a step of a forwarder does to it; nothing else changes but top.
LEMMA RunEffect ==
  ASSUME TypeOK, NEW f \in Forwarders, Run(f)
  PROVE  /\ fwd[f].pc \in Alive
         /\ fwd' = [fwd EXCEPT ![f] = fwd'[f]] /\ fwd'[f] \in ForwarderType
         /\ fwd'[f].via = fwd[f].via /\ fwd'[f].running = fwd[f].running
         /\ fwd'[f].pc \in Alive \cup {"over"}
         /\ fwd[f].running => fwd'[f].pc \in Alive
         /\ Settled /\ top' \in Nat
<1>1. fwd[f] \in ForwarderType /\ fwd \in [Forwarders -> ForwarderType] /\ top \in Nat
  BY DEF TypeOK, ForwarderType
<1>2. CASE Take(f)
  <2>1. fwd[f].queue \in Seq(Nat) /\ fwd[f].queue # <<>>
    BY <1>1, <1>2 DEF Take, ForwarderType
  <2>2. Head(fwd[f].queue) \in Nat /\ Tail(fwd[f].queue) \in Seq(Nat)
    BY <2>1
  <2>3. fwd' = [fwd EXCEPT ![f] = [fwd[f] EXCEPT !.pc = "sending", !.hand = Head(fwd[f].queue),
                                                 !.queue = Tail(fwd[f].queue)]]
    BY <1>1, <1>2 DEF Take
  <2>4. QED
    BY <1>1, <1>2, <2>2, <2>3 DEF Take, ForwarderType, Places, Alive
<1>3. CASE Connect(f) \/ ConnectFails(f) \/ Retry(f)
  <2>1. PICK pc \in Places : fwd' = [fwd EXCEPT ![f] = [fwd[f] EXCEPT !.pc = pc]]
                             /\ pc \in Alive \cup {"over"} /\ (fwd[f].running => pc \in Alive)
    <3>1. CASE Connect(f)
      BY <1>1, <3>1 DEF Connect, Places, Alive
    <3>2. CASE ConnectFails(f)
      BY <1>1, <3>2 DEF ConnectFails, Places, Alive
    <3>3. CASE Retry(f)
      BY <1>1, <3>3 DEF Retry, Places, Alive
    <3>4. QED
      BY <1>3, <3>1, <3>2, <3>3
  <2>2. fwd[f].pc \in Alive /\ Settled /\ top' = top
    BY <1>3 DEF Connect, ConnectFails, Retry, Alive
  <2>3. QED
    BY <1>1, <2>1, <2>2 DEF ForwarderType
<1>4. CASE SendDone(f) \/ SendFails(f)
  BY <1>1, <1>4 DEF SendDone, SendFails, ForwarderType, Places, Alive
<1>5. QED
  BY <1>2, <1>3, <1>4 DEF Run

\* The forwarder that is built.
LEMMA BuiltType == ASSUME NEW via \in Settings, via # "off"
                   PROVE  /\ Built(via) \in ForwarderType
                          /\ Built(via).via = via /\ Built(via).running /\ Built(via).pc \in Alive
                          /\ Built(via).hand = 0 /\ Built(via).queue = <<>>
<1>1. NoForwarder \in ForwarderType
  BY DEF NoForwarder, ForwarderType, Places, Settings
<1> DEFINE pc == IF via = "tcp" THEN "connecting" ELSE "waiting"
<1>2. Built(via) = [NoForwarder EXCEPT !.pc = pc, !.via = via, !.running = TRUE] /\ pc \in Places \cap Alive
  BY DEF Built, Places, Alive
<1> HIDE DEF pc
<1>3. QED
  BY <1>1, <1>2 DEF ForwarderType, NoForwarder

LEMMA InstallEffect ==
  ASSUME TypeOK, NEW r \in Puts, NEW via \in Settings, Install(r, via)
  PROVE  /\ fwd' \in [Forwarders -> ForwarderType]
         /\ \A f \in Forwarders \ {r} : fwd'[f] = fwd[f]
         /\ via = "off" => current' = Nobody /\ fwd' = fwd
         /\ via # "off" => current' = r /\ fwd'[r] = Built(via)
  BY BuiltType DEF Install, TypeOK, ForwarderType, Forwarders

-----------------------------------------------------------------------------
(* Types.                                                                  *)

LEMMA InitTypes == Init => TypeOK
<1> SUFFICES ASSUME Init PROVE TypeOK
  OBVIOUS
<1>1. NoForwarder \in ForwarderType
  BY DEF NoForwarder, ForwarderType, Places, Settings
<1>2. fwd \in [Forwarders -> ForwarderType]
  BY <1>1, BuiltType DEF Init
<1>3. QED
  BY <1>2 DEF Init, TypeOK, ForwarderType, Forwarders, Stages

LEMMA HandleTypes == ASSUME TypeOK, NEW r \in Puts, Handle(r) PROVE TypeOK'
<1>1. CASE Refuse(r)
  BY <1>1 DEF Refuse, TypeOK, Stages
<1>2. CASE Put(r)
  BY <1>2 DEF Put, Save, TypeOK, Stages, Forwarders
<1>3. CASE PutFresh(r)
  <2>1. mem' \in Settings /\ file' = mem' /\ refused' = FALSE
    BY <1>3 DEF PutFresh, Save
  <2>2. fwd' \in [Forwarders -> ForwarderType] /\ current' \in Forwarders \cup {Nobody}
    BY <1>3, <2>1, InstallEffect DEF PutFresh, Forwarders
  <2>3. QED
    BY <1>3, <2>1, <2>2 DEF PutFresh, TypeOK, Stages, ForwarderType
<1>4. CASE StopTimesOut(r)
  <2> DEFINE f == req[r].old
  <2>1. f \in Forwarders /\ fwd[f] \in ForwarderType
    BY <1>4 DEF StopTimesOut, TypeOK, ForwarderType
  <2>2. fwd' \in [Forwarders -> ForwarderType]
    BY <1>4, <2>1 DEF StopTimesOut, TypeOK, ForwarderType, Places
  <2>3. req' \in [Puts -> [stage : Stages, old : Forwarders \cup {Nobody}]]
        /\ \A p \in Puts : req'[p].stage \in {"stopping", "building"} => req'[p].old \in Forwarders
    BY <1>4, <2>1 DEF StopTimesOut, TypeOK, Stages
  <2>4. QED
    BY <1>4, <2>2, <2>3 DEF StopTimesOut, TypeOK, ForwarderType
<1>5. CASE Cancelled(r)
  BY <1>5 DEF Cancelled, TypeOK, Stages
<1>6. CASE Rebuild(r)
  <2>1. fwd' \in [Forwarders -> ForwarderType] /\ current' \in Forwarders \cup {Nobody}
    BY <1>6, InstallEffect DEF Rebuild, Forwarders, TypeOK
  <2>2. leaked' \subseteq Forwarders
    BY <1>6 DEF Rebuild, TypeOK
  <2>3. QED
    BY <1>6, <2>1, <2>2 DEF Rebuild, TypeOK, Stages, ForwarderType
<1>7. QED
  BY <1>1, <1>2, <1>3, <1>4, <1>5, <1>6 DEF Handle

LEMMA StepTypes == TypeOK /\ [Next]_vars => TypeOK'
<1> SUFFICES ASSUME TypeOK, [Next]_vars PROVE TypeOK'
  OBVIOUS
<1>1. CASE Write
  <2>1. next \in Nat /\ next' = next + 1
    BY <1>1 DEF Write, TypeOK
  <2>2. fwd' \in [Forwarders -> ForwarderType]
    <3>1. ASSUME current # Nobody PROVE fwd' = [fwd EXCEPT ![current].queue = Queued(fwd[current].queue, next)]
      BY <1>1, <3>1 DEF Write
    <3>2. ASSUME current # Nobody PROVE Queued(fwd[current].queue, next) \in Seq(Nat)
      BY <2>1, <3>2, QueuedFacts DEF TypeOK
    <3>3. QED
      BY <1>1, <3>1, <3>2 DEF Write, TypeOK, ForwarderType
  <2>3. QED
    BY <1>1, <2>1, <2>2 DEF Write, TypeOK, ForwarderType
<1>2. ASSUME NEW f \in Forwarders, Run(f) PROVE TypeOK'
  BY <1>2, RunEffect DEF Settled, TypeOK, ForwarderType
<1>3. ASSUME NEW r \in Puts, Handle(r) PROVE TypeOK'
  BY <1>3, HandleTypes
<1>4. CASE UNCHANGED vars
  BY <1>4 DEF vars, TypeOK
<1>5. QED
  BY <1>1, <1>2, <1>3, <1>4 DEF Next

(* Types are kept (AuditForwarder, put_handler). *)
THEOREM ForwarderTypes == Spec => []TypeOK
<1>1. QED
  BY InitTypes, StepTypes, PTL DEF Spec

-----------------------------------------------------------------------------
(* Rows go where the file says.                                            *)

LEMMA InitMatching == Init => Matching
<1> SUFFICES ASSUME Init PROVE Matching
  OBVIOUS
<1>1. mem # "off" => current = Boot /\ fwd[Boot] = Built(mem)
  BY DEF Init, Forwarders
<1>2. \A r \in Puts : fwd[r].pc = "none" /\ r # current /\ req[r].stage = "idle"
  BY ForwarderAssumption DEF Init, Forwarders, NoForwarder
<1>3. \A f \in Forwarders : fwd[f].pc \in Alive => f = current
  BY <1>2 DEF Init, Forwarders, NoForwarder, Alive
<1>4. InPlace(file)
  BY <1>1, BuiltType, ForwarderAssumption DEF Init, InPlace
<1>5. current # Nobody => current = Boot /\ fwd[current].pc \in Alive
  BY <1>1, BuiltType DEF Init
<1>6. QED
  BY <1>2, <1>3, <1>4, <1>5 DEF Init, Matching, Unbuilt, Stopping, OneInPlace, Killed, Pending, Alive

\* Forwarders run, rows are written: none of it touches what Matching is about,
\* but that a forwarder told to stop may end.
LEMMA RunMatching ==
  ASSUME TypeOK, Matching, UNCHANGED <<mem, file, current, req, leaked, refused>>,
         fwd' \in [Forwarders -> ForwarderType],
         \A f \in Forwarders : /\ fwd'[f].via = fwd[f].via /\ fwd'[f].running = fwd[f].running
                               /\ \/ fwd'[f].pc = fwd[f].pc
                                  \/ /\ fwd[f].pc \in Alive /\ fwd'[f].pc \in Alive \cup {"over"}
                                     /\ fwd[f].running => fwd'[f].pc \in Alive
  PROVE  Matching'
<1>1. Unbuilt'
  BY DEF Matching, Unbuilt, Alive, Forwarders
<1>2. Stopping'
  BY DEF Matching, Stopping, Alive, TypeOK
<1>3. OneInPlace'
  BY DEF Matching, OneInPlace, Alive, TypeOK
<1>4. Killed'
  BY DEF Matching, Killed, Alive, TypeOK
<1>5. Pending'
  <2>1. ASSUME NEW r \in Puts, WillBuild(r) PROVE WillBuild(r)'
    BY <2>1 DEF WillBuild, Alive, TypeOK
  <2>2. InPlace(file) => InPlace(file)'
    BY DEF InPlace, Alive, TypeOK
  <2>3. QED
    BY <2>1, <2>2 DEF Matching, Pending
<1>6. QED
  BY <1>1, <1>2, <1>3, <1>4, <1>5 DEF Matching

\* A request puts what the settings ask for into place.
LEMMA InstallMatching ==
  ASSUME TypeOK, TypeOK', Matching, NEW r \in Puts, NEW via \in Settings, Install(r, via),
         req[r].stage # "done", req' = [req EXCEPT ![r].stage = "done"],
         \A f \in Forwarders \ leaked' : fwd[f].pc \notin Alive,
         leaked' \subseteq leaked \cup {current}, mem' = via, ~refused' => file' = mem'
  PROVE  Matching'
<1>1. fwd[r].pc = "none" /\ r \in Forwarders
  BY DEF Matching, Unbuilt, Forwarders
<1>2. /\ \A f \in Forwarders \ {r} : fwd'[f] = fwd[f]
      /\ via = "off" => current' = Nobody /\ fwd' = fwd
      /\ via # "off" => current' = r /\ fwd'[r] = Built(via)
  BY InstallEffect
<1>3. InPlace(via)'
  BY <1>2, BuiltType, ForwarderAssumption DEF InPlace
<1>4. req'[r].stage = "done" /\ \A p \in Puts \ {r} : req'[p] = req[p]
  BY DEF TypeOK
<1>5. Unbuilt'
  <2> SUFFICES ASSUME NEW p \in Puts, req'[p].stage # "done"
               PROVE  fwd'[p].pc = "none" /\ p \notin leaked' /\ p # current'
    BY DEF Unbuilt
  <2>1. p # r /\ req'[p] = req[p] /\ fwd'[p] = fwd[p]
    BY <1>2, <1>4 DEF Forwarders
  <2>2. fwd[p].pc = "none"
    BY <2>1 DEF Matching, Unbuilt
  <2>3. p \notin leaked' /\ p # Nobody
    BY <2>1, ForwarderAssumption DEF Matching, Unbuilt
  <2>4. QED
    BY <1>2, <2>1, <2>2, <2>3
<1>6. Stopping'
  <2> SUFFICES ASSUME NEW p \in Puts, req'[p].stage \in {"stopping", "building"}
               PROVE  /\ fwd'[req'[p].old].pc # "none" /\ ~fwd'[req'[p].old].running
                      /\ req'[p].stage = "building" => fwd'[req'[p].old].pc \in {"over", "cancelled"}
    BY DEF Stopping
  <2>1. p # r /\ req'[p] = req[p]
    BY <1>4
  <2>2. /\ req[p].old \in Forwarders /\ fwd[req[p].old].pc # "none" /\ ~fwd[req[p].old].running
        /\ req[p].stage = "building" => fwd[req[p].old].pc \in {"over", "cancelled"}
    BY <2>1 DEF Matching, Stopping, TypeOK
  <2>3. QED
    BY <1>1, <1>2, <2>1, <2>2
<1>7. OneInPlace'
  <2>1. current' # Nobody => fwd'[current'].pc \in Alive /\ current' = r
    BY <1>2, BuiltType
  <2>2. r \notin leaked'
    BY DEF Matching, Unbuilt
  <2>3. ASSUME NEW f \in Forwarders \ leaked', fwd'[f].pc \in Alive PROVE f = current'
    <3>1. CASE f = r
      BY <1>1, <1>2, <2>3, <3>1 DEF Alive
    <3>2. CASE f # r
      BY <1>2, <2>3, <3>2
    <3>3. QED
      BY <3>1, <3>2
  <2>4. QED
    BY <2>1, <2>2, <2>3 DEF OneInPlace, Alive
<1>8. Killed'
  BY <1>2, BuiltType DEF Killed, Alive
<1>9. Pending'
  BY <1>3 DEF Pending
<1>10. QED
  BY <1>5, <1>6, <1>7, <1>8, <1>9 DEF Matching

LEMMA PutMatching == ASSUME TypeOK, TypeOK', Matching, NEW r \in Puts, Put(r) PROVE Matching'
<1>1. /\ current \in Forwarders /\ req[r].stage = "idle" /\ current' = current /\ leaked' = leaked
      /\ mem' = file' /\ ~refused'
  BY DEF Put, Save, TypeOK
<1>2. /\ \A f \in Forwarders : fwd'[f].pc = fwd[f].pc /\ (fwd'[f].running => fwd[f].running)
      /\ ~fwd'[current].running
  BY <1>1 DEF Put, TypeOK
<1>3. /\ req'[r].stage = "stopping" /\ req'[r].old = current
      /\ \A p \in Puts \ {r} : req'[p] = req[p]
  BY DEF Put, TypeOK
<1>4. Unbuilt'
  <2> SUFFICES ASSUME NEW p \in Puts, req'[p].stage # "done"
               PROVE  fwd'[p].pc = "none" /\ p \notin leaked' /\ p # current'
    BY DEF Unbuilt
  <2>1. req[p].stage # "done"
    BY <1>1, <1>3
  <2>2. QED
    BY <1>1, <1>2, <2>1 DEF Matching, Unbuilt, Forwarders
<1>5. Stopping'
  <2> SUFFICES ASSUME NEW p \in Puts, req'[p].stage \in {"stopping", "building"}
               PROVE  /\ fwd'[req'[p].old].pc # "none" /\ ~fwd'[req'[p].old].running
                      /\ req'[p].stage = "building" => fwd'[req'[p].old].pc \in {"over", "cancelled"}
    BY DEF Stopping
  <2>1. CASE p = r
    BY <1>1, <1>2, <1>3, <2>1, ForwarderAssumption DEF Matching, OneInPlace, Forwarders
  <2>2. CASE p # r
    <3>1. req'[p] = req[p] /\ req[p].old \in Forwarders
      BY <1>3, <2>2 DEF TypeOK
    <3>2. QED
      BY <1>2, <3>1 DEF Matching, Stopping
  <2>3. QED
    BY <2>1, <2>2
<1>6. OneInPlace'
  BY <1>1, <1>2 DEF Matching, OneInPlace
<1>7. Killed'
  <2> SUFFICES ASSUME fwd'[current].pc = "cancelled" PROVE \E p \in Puts : req'[p].stage = "building"
    BY <1>1 DEF Killed
  <2>1. PICK p \in Puts : req[p].stage = "building"
    BY <1>1, <1>2, ForwarderAssumption DEF Matching, Killed, Forwarders
  <2>2. QED
    BY <1>1, <1>3, <2>1
<1>8. Pending'
  <2>1. CASE fwd[current].pc # "cancelled"
    BY <1>1, <1>2, <1>3, <2>1 DEF Pending, WillBuild
  <2>2. CASE fwd[current].pc = "cancelled"
    <3>1. PICK p \in Puts : req'[p].stage = "building"
      BY <1>1, <1>2, <1>7, <2>2, ForwarderAssumption DEF Killed, Forwarders
    <3>2. QED
      BY <1>1, <3>1 DEF Pending, WillBuild
  <2>3. QED
    BY <2>1, <2>2
<1>9. QED
  BY <1>4, <1>5, <1>6, <1>7, <1>8 DEF Matching

LEMMA TimeoutMatching == ASSUME TypeOK, TypeOK', Matching, NEW r \in Puts, StopTimesOut(r) PROVE Matching'
<1> DEFINE old == req[r].old
<1>1. /\ old \in Forwarders /\ fwd[old].pc \in Alive /\ ~fwd[old].running
      /\ req[r].stage = "stopping"
      /\ UNCHANGED <<mem, file, current, leaked, refused>>
  BY DEF StopTimesOut, Matching, Stopping, TypeOK
<1>2. /\ fwd'[old].pc \in {"over", "cancelled"} /\ ~fwd'[old].running
      /\ \A f \in Forwarders \ {old} : fwd'[f] = fwd[f]
  BY <1>1 DEF StopTimesOut, TypeOK
<1>3. /\ req'[r].stage = "building" /\ req'[r].old = old
      /\ \A p \in Puts \ {r} : req'[p] = req[p]
  BY DEF StopTimesOut, TypeOK
<1> HIDE DEF old
<1>4. Unbuilt'
  <2> SUFFICES ASSUME NEW p \in Puts, req'[p].stage # "done"
               PROVE  fwd'[p].pc = "none" /\ p \notin leaked' /\ p # current'
    BY DEF Unbuilt
  <2>1. req[p].stage # "done" /\ p \in Forwarders
    BY <1>1, <1>3 DEF Forwarders
  <2>2. fwd[p].pc = "none" /\ p \notin leaked /\ p # current
    BY <2>1 DEF Matching, Unbuilt
  <2>3. p # old
    BY <1>1, <2>2 DEF Alive
  <2>4. QED
    BY <1>1, <1>2, <2>1, <2>2, <2>3
<1>5. Stopping'
  <2> SUFFICES ASSUME NEW p \in Puts, req'[p].stage \in {"stopping", "building"}
               PROVE  /\ fwd'[req'[p].old].pc # "none" /\ ~fwd'[req'[p].old].running
                      /\ req'[p].stage = "building" => fwd'[req'[p].old].pc \in {"over", "cancelled"}
    BY DEF Stopping
  <2>1. CASE p = r
    BY <1>1, <1>2, <1>3, <2>1
  <2>2. CASE p # r
    <3>1. req'[p] = req[p] /\ req[p].old \in Forwarders
      BY <1>3, <2>2 DEF TypeOK
    <3>2. CASE req[p].old = old
      BY <1>2, <3>1, <3>2
    <3>3. CASE req[p].old # old
      BY <1>2, <3>1, <3>3 DEF Matching, Stopping
    <3>4. QED
      BY <3>2, <3>3
  <2>3. QED
    BY <2>1, <2>2
<1>6. OneInPlace'
  <2>1. ASSUME current # Nobody PROVE fwd'[current].pc # "none" /\ current \notin leaked
    <3>1. current \in Forwarders
      BY <2>1 DEF TypeOK
    <3>2. QED
      BY <1>2, <2>1, <3>1 DEF Matching, OneInPlace
  <2>2. ASSUME NEW f \in Forwarders \ leaked, fwd'[f].pc \in Alive PROVE f = current
    BY <1>2, <2>2 DEF Matching, OneInPlace, Alive
  <2>3. QED
    BY <1>1, <2>1, <2>2 DEF OneInPlace
<1>7. Killed' /\ Pending'
  <2>1. WillBuild(r)' /\ req'[r].stage = "building"
    BY <1>3 DEF WillBuild
  <2>2. ~refused => mem = file
    BY DEF Matching, Pending
  <2>3. QED
    BY <1>1, <2>1, <2>2 DEF Killed, Pending
<1>8. QED
  BY <1>4, <1>5, <1>6, <1>7 DEF Matching

LEMMA HandleMatching == ASSUME TypeOK, TypeOK', Matching, NEW r \in Puts, Handle(r) PROVE Matching'
<1>1. CASE Refuse(r) \/ Cancelled(r)
  <2>1. /\ UNCHANGED <<file, current, fwd, leaked>>
        /\ req'[r].stage = "done" /\ \A p \in Puts \ {r} : req'[p] = req[p]
        /\ ~refused' => ~refused /\ mem' = mem
        /\ ~refused' => req[r].stage = "stopping" /\ fwd[req[r].old].pc = "cancelled"
        /\ req[r].stage \in {"idle", "stopping"}
    BY <1>1 DEF Refuse, Cancelled, TypeOK
  <2>2. Unbuilt' /\ OneInPlace'
    BY <2>1 DEF Matching, Unbuilt, OneInPlace
  <2>3. Stopping'
    BY <2>1 DEF Matching, Stopping
  <2>4. Killed'
    BY <2>1 DEF Matching, Killed
  <2>5. Pending'
    <3>1. ASSUME ~refused' PROVE ~WillBuild(r)
      BY <2>1, <3>1 DEF WillBuild
    <3>2. ASSUME NEW p \in Puts \ {r}, WillBuild(p) PROVE WillBuild(p)'
      BY <2>1, <3>2 DEF WillBuild
    <3>3. InPlace(file) => InPlace(file)'
      BY <2>1 DEF InPlace
    <3>4. QED
      BY <2>1, <3>1, <3>2, <3>3 DEF Matching, Pending
  <2>6. QED
    BY <2>2, <2>3, <2>4, <2>5 DEF Matching
<1>2. CASE Put(r)
  BY <1>2, PutMatching
<1>3. CASE PutFresh(r)
  <2>1. /\ Install(r, mem') /\ mem' \in Settings /\ file' = mem' /\ leaked' = leaked
        /\ req[r].stage = "idle" /\ req' = [req EXCEPT ![r].stage = "done"] /\ current = Nobody
    BY <1>3 DEF PutFresh, Save
  <2>2. \A f \in Forwarders \ leaked' : fwd[f].pc \notin Alive
    BY <2>1, ForwarderAssumption DEF Matching, OneInPlace, Forwarders
  <2>3. QED
    BY <2>1, <2>2, InstallMatching
<1>4. CASE StopTimesOut(r)
  BY <1>4, TimeoutMatching
<1>5. CASE Rebuild(r)
  <2>1. /\ Install(r, mem) /\ mem \in Settings /\ mem' = mem /\ file' = file /\ refused' = refused
        /\ req' = [req EXCEPT ![r].stage = "done"] /\ req[r].stage \in {"stopping", "building"}
        /\ leaked' = leaked \cup ({current} \ {Nobody, req[r].old})
    BY <1>5 DEF Rebuild, Stopped, TypeOK
  <2>2. fwd[req[r].old].pc \in {"over", "cancelled"}
    BY <1>5 DEF Rebuild, Stopped, Matching, Stopping
  <2>3. \A f \in Forwarders \ leaked' : fwd[f].pc \notin Alive
    BY <2>1, <2>2, ForwarderAssumption DEF Matching, OneInPlace, Forwarders, Alive
  <2>4. ~refused => file = mem
    BY DEF Matching, Pending
  <2>5. QED
    BY <2>1, <2>3, <2>4, InstallMatching
<1>6. QED
  BY <1>1, <1>2, <1>3, <1>4, <1>5 DEF Handle

LEMMA StepMatching == TypeOK /\ TypeOK' /\ Matching /\ [Next]_vars => Matching'
<1> SUFFICES ASSUME TypeOK, TypeOK', Matching, [Next]_vars PROVE Matching'
  OBVIOUS
<1>1. CASE Write
  <2>1. fwd' \in [Forwarders -> ForwarderType]
    BY DEF TypeOK, ForwarderType
  <2>2. \A f \in Forwarders : /\ fwd'[f].pc = fwd[f].pc /\ fwd'[f].via = fwd[f].via
                              /\ fwd'[f].running = fwd[f].running
    BY <1>1 DEF Write, TypeOK
  <2>3. QED
    BY <1>1, <2>1, <2>2, RunMatching DEF Write
<1>2. ASSUME NEW f \in Forwarders, Run(f) PROVE Matching'
  <2>1. fwd' \in [Forwarders -> ForwarderType]
    BY DEF TypeOK, ForwarderType
  <2>2. \A g \in Forwarders \ {f} : fwd'[g] = fwd[g]
    BY <1>2, RunEffect DEF TypeOK
  <2>3. QED
    BY <1>2, <2>1, <2>2, RunEffect, RunMatching DEF Settled
<1>3. ASSUME NEW r \in Puts, Handle(r) PROVE Matching'
  BY <1>3, HandleMatching
<1>4. CASE UNCHANGED vars
  BY <1>4 DEF vars, Matching, Unbuilt, Stopping, OneInPlace, Killed, Pending, WillBuild, InPlace
<1>5. QED
  BY <1>1, <1>2, <1>3, <1>4 DEF Next

(* Where rows go agrees with config.yaml whenever no change is under way. *)
THEOREM RowsGoWhereSaved == Spec => []ForwarderMatches
<1>1. Matching => ForwarderMatches
  BY DEF Matching, Pending, ForwarderMatches, AtRest, WillBuild
<1>2. QED
  BY InitTypes, StepTypes, InitMatching, StepMatching, <1>1, PTL DEF Spec

-----------------------------------------------------------------------------
(* What is held is newer than what has gone out.                           *)

\* The rows in hand and queued are numbers.
LEMMA HeldRows == ASSUME TypeOK, NEW f \in Forwarders
                  PROVE  /\ Held(f) \subseteq Nat
                         /\ fwd[f].hand \in Held(f)
                         /\ \A i \in 1..Len(fwd[f].queue) : fwd[f].queue[i] \in Held(f)
<1>1. fwd[f].hand \in Nat /\ fwd[f].queue \in Seq(Nat)
  BY DEF TypeOK
<1>2. QED
  BY <1>1 DEF Held

\* Steps after which nobody holds a row that it did not hold before.
LEMMA NothingNew ==
  ASSUME TypeOK, TypeOK', Written, Behind, next' = next,
         \A f \in Forwarders : Held(f)' \subseteq Held(f) \cup {0},
         top' < next,
         \/ current' = current
         \/ current' = Nobody
         \/ \A y \in Held(current)' : y = 0
  PROVE  Written' /\ Behind'
<1>1. 0 < next
  BY DEF Written, TypeOK
<1>2. Written'
  BY <1>1 DEF Written
<1>3. Behind'
  <2> SUFFICES ASSUME current' # Nobody, NEW f \in Forwarders \ {current'},
                      NEW x \in Held(f)', NEW y \in Held(current)', y # 0
               PROVE  x < y
    BY DEF Behind
  <2>1. current' = current /\ current \in Forwarders
    BY DEF TypeOK
  <2>2. y \in Held(current) /\ y \in Nat /\ x \in Held(f) \cup {0}
    BY <2>1, HeldRows
  <2>3. QED
    BY <2>1, <2>2 DEF Behind
<1>4. QED
  BY <1>2, <1>3

LEMMA InitOrdering == Init => Ordering
<1> SUFFICES ASSUME Init PROVE Ordering
  OBVIOUS
<1>1. \A f \in Forwarders : fwd[f].hand = 0 /\ fwd[f].queue = <<>>
  BY BuiltType DEF Init, NoForwarder
<1>2. \A f \in Forwarders : \A x \in Held(f) : x = 0
  BY <1>1 DEF Held
<1>3. Written /\ Behind
  BY <1>2, ForwarderAssumption DEF Init, Written, Behind, Forwarders
<1>4. Newest /\ InOrder
  BY <1>1, ForwarderAssumption DEF Newest, InOrder
<1>5. QED
  BY <1>3, <1>4 DEF Ordering

\* A row that is written is the newest there is, and goes to the forwarder in place.
LEMMA WriteOrdering == ASSUME TypeOK, TypeOK', Matching, Ordering, Write PROVE Ordering'
<1>1. /\ next \in Nat /\ next' = next + 1 /\ top' = top /\ top \in Nat /\ top < next
      /\ UNCHANGED <<current, leaked>>
  BY DEF Write, TypeOK, Ordering, Written
<1>2. CASE current = Nobody
  <2>1. fwd' = fwd
    BY <1>2 DEF Write
  <2>2. \A f \in Forwarders : Held(f)' = Held(f) /\ Held(f) \subseteq Nat
    BY <2>1, HeldRows DEF Held
  <2>3. \A f \in Forwarders \ leaked : fwd[f].pc \notin Alive
    BY <1>2, ForwarderAssumption DEF Matching, OneInPlace, Forwarders
  <2>4. Written' /\ Behind'
    BY <1>1, <1>2, <2>2 DEF Ordering, Written, Behind
  <2>5. Newest' /\ InOrder'
    BY <1>1, <2>1, <2>3 DEF Newest, InOrder
  <2>6. QED
    BY <2>4, <2>5 DEF Ordering
<1>3. ASSUME NEW c \in Forwarders, c = current
      PROVE  Ordering'
  <2> DEFINE q == fwd[c].queue
             p == fwd'[c].queue
  <2>1. q \in Seq(Nat) /\ fwd[c].hand \in Nat /\ current # Nobody
    BY <1>3, ForwarderAssumption DEF TypeOK, Forwarders
  <2>2. /\ p = Queued(q, next) /\ fwd'[c].hand = fwd[c].hand /\ fwd'[c].pc = fwd[c].pc
        /\ \A f \in Forwarders \ {c} : fwd'[f] = fwd[f]
    BY <1>3, <2>1 DEF Write, TypeOK
  <2>3. /\ p \in Seq(Nat) /\ p # <<>> /\ p[Len(p)] = next
        /\ Len(q) <= QueueSize => Len(p) <= QueueSize
        /\ \A i \in 1..Len(p) : p[i] = next \/ \E j \in 1..Len(q) : p[i] = q[j]
        /\ (\A i \in 1..Len(q) : q[i] = q[1] + i - 1) /\ (q # <<>> => q[Len(q)] = next - 1)
             => \A i \in 1..Len(p) : p[i] = p[1] + i - 1
    <3> HIDE DEF p, q
    <3>1. QED
      BY <1>1, <2>1, <2>2, QueuedFacts
  <2>4. Held(c)' \subseteq Held(c) \cup {next}
    BY <2>2, <2>3 DEF Held
  <2>5. \A f \in Forwarders \ {c} : Held(f)' = Held(f)
    BY <2>2 DEF Held
  <2>6. \A f \in Forwarders : Held(f) \subseteq Nat /\ \A x \in Held(f) : x < next
    BY HeldRows DEF Ordering, Written
  <2>7. Written'
    <3> SUFFICES ASSUME NEW f \in Forwarders, NEW x \in Held(f)' PROVE x < next'
      BY <1>1 DEF Written
    <3>1. x \in Held(f) \/ x = next
      BY <2>4, <2>5
    <3>2. QED
      BY <1>1, <2>6, <3>1
  <2>8. Behind'
    <3> SUFFICES ASSUME NEW f \in Forwarders \ {c}, NEW x \in Held(f)', NEW y \in Held(c)', y # 0
                 PROVE  x < y
      BY <1>1, <1>3 DEF Behind
    <3>1. x \in Held(f) /\ (y \in Held(c) \/ y = next)
      BY <2>4, <2>5
    <3>2. y \in Held(c) => x < y
      BY <1>3, <2>1, <3>1 DEF Ordering, Behind
    <3>3. QED
      BY <2>6, <3>1, <3>2
  <2>9. \A f \in Forwarders \ leaked : fwd'[f].pc \in Alive => f = c /\ fwd[c].pc \in Alive /\ c \notin leaked
    <3>1. \A f \in Forwarders : fwd'[f].pc = fwd[f].pc
      BY <2>2
    <3>2. QED
      BY <1>3, <3>1 DEF Matching, OneInPlace
  <2>10. Newest'
    BY <1>1, <2>3, <2>9 DEF Newest
  <2>11. ASSUME c \notin leaked, fwd[c].pc \in Alive
         PROVE  /\ Len(p) <= QueueSize
                /\ fwd'[c].hand # 0 => top < fwd'[c].hand
                /\ \A i \in 1..Len(p) : top < p[i] /\ fwd'[c].hand < p[i]
                /\ \A i \in 1..Len(p) : p[i] = p[1] + i - 1
    <3>1. /\ Len(q) <= QueueSize
          /\ fwd[c].hand # 0 => top < fwd[c].hand
          /\ \A i \in 1..Len(q) : top < q[i] /\ fwd[c].hand < q[i]
          /\ \A i \in 1..Len(q) : q[i] = q[1] + i - 1
          /\ q # <<>> => q[Len(q)] = next - 1
      BY <2>1, <2>11 DEF Ordering, InOrder, Newest
    <3>2. fwd[c].hand < next
      BY <2>1, <2>6, HeldRows
    <3>3. \A i \in 1..Len(p) : top < p[i] /\ fwd[c].hand < p[i]
      BY <1>1, <2>3, <3>1, <3>2
    <3>4. QED
      BY <2>2, <2>3, <3>1, <3>3
  <2>12. InOrder'
    <3> HIDE DEF p, q
    <3>1. fwd'[c].queue = p
      BY DEF p
    <3>2. QED
      BY <1>1, <2>9, <2>11, <3>1 DEF InOrder
  <2>13. QED
    BY <2>7, <2>8, <2>10, <2>12 DEF Ordering
<1>4. QED
  BY <1>2, <1>3 DEF TypeOK

\* What a step of a forwarder does to the rows it holds.
LEMMA RunRows ==
  ASSUME TypeOK, NEW f \in Forwarders, Run(f)
  PROVE  LET q == fwd[f].queue
             p == fwd'[f].queue
             h == fwd'[f].hand IN
         /\ p \in Seq(Nat) /\ q \in Seq(Nat) /\ top \in Nat
         /\ \/ p = q /\ h = fwd[f].hand /\ top' = top
            \/ p = q /\ h = 0 /\ (top' = top \/ top' = fwd[f].hand)
            \/ q # <<>> /\ h = Head(q) /\ p = Tail(q) /\ top' = top
<1>1. fwd[f] \in ForwarderType /\ fwd \in [Forwarders -> ForwarderType] /\ top \in Nat
  BY DEF TypeOK, ForwarderType
<1>2. fwd'[f] \in ForwarderType
  BY RunEffect
<1>3. CASE Take(f)
  BY <1>1, <1>2, <1>3 DEF Take, ForwarderType
<1>4. CASE Connect(f) \/ ConnectFails(f) \/ Retry(f)
  BY <1>1, <1>2, <1>4 DEF Connect, ConnectFails, Retry, ForwarderType
<1>5. CASE SendDone(f) \/ SendFails(f)
  BY <1>1, <1>2, <1>5 DEF SendDone, SendFails, ForwarderType
<1>6. QED
  BY <1>3, <1>4, <1>5 DEF Run

LEMMA RunOrdering ==
  ASSUME TypeOK, TypeOK', Matching, Matching', Ordering, NEW f \in Forwarders, Run(f)
  PROVE  Ordering'
<1> DEFINE q == fwd[f].queue
           p == fwd'[f].queue
           h == fwd'[f].hand
<1>1. /\ p \in Seq(Nat) /\ q \in Seq(Nat) /\ top \in Nat
      /\ \/ p = q /\ h = fwd[f].hand /\ top' = top
         \/ p = q /\ h = 0 /\ (top' = top \/ top' = fwd[f].hand)
         \/ q # <<>> /\ h = Head(q) /\ p = Tail(q) /\ top' = top
  BY RunRows
<1>2. /\ fwd[f].pc \in Alive /\ UNCHANGED <<current, next, leaked>>
      /\ \A g \in Forwarders \ {f} : fwd'[g] = fwd[g]
  BY RunEffect DEF Settled, TypeOK
<1>3. fwd[f].hand \in Nat /\ h \in Nat /\ next \in Nat
  BY DEF TypeOK
<1>4. \A i \in 1..Len(p) : \E j \in 1..Len(q) : p[i] = q[j]
  <2>1. CASE p = q
    BY <2>1
  <2>2. CASE q # <<>> /\ p = Tail(q)
    <3>1. Len(p) = Len(q) - 1 /\ \A i \in 1..Len(p) : p[i] = q[i+1] /\ i + 1 \in 1..Len(q)
      BY <1>1, <2>2
    <3>2. QED
      BY <3>1
  <2>3. QED
    BY <1>1, <2>1, <2>2
<1>5. h \in Held(f) \cup {0} /\ top' \in Held(f) \cup {top}
  <2>1. q # <<>> => Head(q) = q[1] /\ 1 \in 1..Len(q)
    BY <1>1
  <2>2. QED
    BY <1>1, <2>1 DEF Held
<1> HIDE DEF p, q, h
<1>6. \A g \in Forwarders : Held(g)' \subseteq Held(g) \cup {0}
  <2>1. Held(f)' \subseteq Held(f) \cup {0}
    BY <1>4, <1>5 DEF Held, p, q, h
  <2>2. \A g \in Forwarders \ {f} : Held(g)' = Held(g)
    BY <1>2 DEF Held
  <2>3. QED
    BY <2>1, <2>2
<1>7. top' < next
  BY <1>5 DEF Ordering, Written
<1>8. Written' /\ Behind'
  BY <1>2, <1>6, <1>7, NothingNew DEF Ordering
<1>9. \A g \in Forwarders \ leaked : fwd'[g].pc \in Alive => g = current /\ fwd[g].pc \in Alive
  <2>1. \A g \in Forwarders \ leaked : fwd'[g].pc \in Alive => g = current
    BY <1>2 DEF Matching, OneInPlace
  <2>2. QED
    BY <1>2, <2>1
<1>10. ASSUME NEW g \in Forwarders \ leaked, fwd'[g].pc \in Alive, g # f
       PROVE  LET s == fwd[g].queue IN
              /\ fwd'[g] = fwd[g] /\ (s # <<>> => s[Len(s)] = next - 1)
              /\ Len(s) <= QueueSize
              /\ fwd[g].hand # 0 => top' < fwd[g].hand
              /\ \A i \in 1..Len(s) : top' < s[i] /\ fwd[g].hand < s[i]
              /\ \A i \in 1..Len(s) : s[i] = s[1] + i - 1
  <2> DEFINE s == fwd[g].queue
  <2>1. g = current /\ fwd[g].pc \in Alive /\ fwd'[g] = fwd[g] /\ current # Nobody
    BY <1>2, <1>9, <1>10, ForwarderAssumption DEF Forwarders
  <2>2. /\ s # <<>> => s[Len(s)] = next - 1
        /\ Len(s) <= QueueSize
        /\ fwd[g].hand # 0 => top < fwd[g].hand
        /\ \A i \in 1..Len(s) : top < s[i] /\ fwd[g].hand < s[i]
        /\ \A i \in 1..Len(s) : s[i] = s[1] + i - 1
    BY <2>1 DEF Ordering, InOrder, Newest
  <2>3. ASSUME NEW y \in Held(g), y # 0, top < y PROVE top' < y
    BY <1>5, <1>10, <2>1, <2>3 DEF Ordering, Behind
  <2>4. /\ fwd[g].hand \in Held(g) /\ fwd[g].hand \in Nat
        /\ \A i \in 1..Len(s) : s[i] \in Held(g) /\ s[i] \in Nat
    BY HeldRows
  <2>5. \A i \in 1..Len(s) : top' < s[i]
    BY <1>1, <2>2, <2>3, <2>4
  <2>6. QED
    BY <2>1, <2>2, <2>3, <2>4, <2>5
<1>11. ASSUME f \notin leaked
       PROVE  /\ p # <<>> => p[Len(p)] = next - 1
              /\ Len(p) <= QueueSize
              /\ h # 0 => top' < h
              /\ \A i \in 1..Len(p) : top' < p[i] /\ h < p[i]
              /\ \A i \in 1..Len(p) : p[i] = p[1] + i - 1
  <2>1. /\ q # <<>> => q[Len(q)] = next - 1
        /\ Len(q) <= QueueSize
        /\ fwd[f].hand # 0 => top < fwd[f].hand
        /\ \A i \in 1..Len(q) : top < q[i] /\ fwd[f].hand < q[i]
        /\ \A i \in 1..Len(q) : q[i] = q[1] + i - 1
    BY <1>2, <1>11 DEF Ordering, InOrder, Newest, q
  <2>2. CASE p = q
    BY <1>1, <1>3, <2>1, <2>2
  <2>3. CASE q # <<>> /\ h = Head(q) /\ p = Tail(q) /\ top' = top
    <3>1. /\ Len(q) \in Nat /\ Len(q) >= 1 /\ Len(p) = Len(q) - 1 /\ h = q[1] /\ p \in Seq(Nat)
          /\ \A i \in 1..Len(p) : p[i] = q[i+1] /\ i \in 1..Len(q)-1 /\ i + 1 \in 1..Len(q)
      BY <1>1, <2>3
    <3>2. p # <<>> => p[Len(p)] = next - 1
      <4>1. ASSUME p # <<>> PROVE Len(p) \in 1..Len(p) /\ Len(p) + 1 = Len(q)
        BY <3>1, <4>1
      <4>2. QED
        BY <2>1, <2>3, <3>1, <4>1
    <3>3. Len(p) <= QueueSize
      BY <2>1, <3>1, ForwarderAssumption
    <3>4. top' < h
      BY <2>1, <2>3, <3>1
    <3>5. \A i \in 1..Len(p) : top' < p[i]
      BY <2>1, <2>3, <3>1
    <3>6. \A i \in 1..Len(p) : p[i] = q[1] + i /\ q[1] \in Nat
      <4> SUFFICES ASSUME NEW i \in 1..Len(p) PROVE p[i] = q[1] + i /\ q[1] \in Nat
        OBVIOUS
      <4>1. i \in 1..Len(q)-1 /\ i + 1 \in 1..Len(q) /\ p[i] = q[i+1] /\ q[1] \in Nat
        BY <1>1, <3>1
      <4>2. q[i+1] = q[1] + (i + 1) - 1
        BY <2>1, <4>1
      <4>3. QED
        BY <4>1, <4>2
    <3>7. \A i \in 1..Len(p) : h < p[i] /\ p[i] = p[1] + i - 1
      <4> SUFFICES ASSUME NEW i \in 1..Len(p) PROVE h < p[i] /\ p[i] = p[1] + i - 1
        OBVIOUS
      <4>1. 1 \in 1..Len(p)
        BY <3>1
      <4>2. p[1] = q[1] + 1 /\ p[i] = q[1] + i /\ q[1] \in Nat /\ h = q[1]
        BY <3>1, <3>6, <4>1
      <4>3. QED
        BY <4>2
    <3>8. QED
      BY <3>2, <3>3, <3>4, <3>5, <3>7
  <2>4. QED
    BY <1>1, <2>2, <2>3
<1>12. Newest'
  BY <1>2, <1>10, <1>11 DEF Newest, p
<1>13. InOrder'
  <2> SUFFICES ASSUME NEW g \in Forwarders \ leaked, fwd'[g].pc \in Alive
               PROVE  LET s == fwd'[g].queue IN
                        /\ Len(s) <= QueueSize
                        /\ fwd'[g].hand # 0 => top' < fwd'[g].hand
                        /\ \A i \in 1..Len(s) : top' < s[i] /\ fwd'[g].hand < s[i]
                        /\ \A i \in 1..Len(s) : s[i] = s[1] + i - 1
    BY <1>2 DEF InOrder
  <2>1. CASE g = f
    BY <1>11, <2>1 DEF p, h
  <2>2. CASE g # f
    BY <1>10, <2>2
  <2>3. QED
    BY <2>1, <2>2
<1>14. QED
  BY <1>8, <1>12, <1>13 DEF Ordering

\* The rows of a forwarder stay as they are, or it ends, or holds none.
KeptOrDropped(f) ==
  \/ /\ fwd'[f].queue = fwd[f].queue /\ fwd'[f].hand = fwd[f].hand
     /\ fwd'[f].pc = fwd[f].pc
  \/ fwd'[f].pc \notin Alive /\ fwd'[f].hand = 0 /\ fwd'[f].queue = fwd[f].queue
  \/ fwd'[f].queue = <<>> /\ fwd'[f].hand = 0

\* The requests move no row: they leave what a forwarder holds, or drop it.
LEMMA HandleRows ==
  ASSUME TypeOK, NEW r \in Puts, Handle(r)
  PROVE  /\ UNCHANGED <<next, top>> /\ leaked \subseteq leaked'
         /\ current' = current \/ current' = Nobody \/ (current' = r /\ fwd'[r].hand = 0 /\ fwd'[r].queue = <<>>)
         /\ \A f \in Forwarders : KeptOrDropped(f)
<1>1. CASE Refuse(r) \/ Cancelled(r)
  BY <1>1 DEF Refuse, Cancelled, KeptOrDropped
<1>2. CASE Put(r)
  BY <1>2 DEF Put, TypeOK, KeptOrDropped
<1>3. CASE StopTimesOut(r)
  BY <1>3 DEF StopTimesOut, TypeOK, Alive, KeptOrDropped
<1>4. CASE PutFresh(r)
  <2>1. Install(r, mem') /\ mem' \in Settings /\ UNCHANGED <<next, top, leaked>>
    BY <1>4 DEF PutFresh, Save
  <2>2. QED
    BY <2>1, InstallEffect, BuiltType DEF KeptOrDropped
<1>5. CASE Rebuild(r)
  <2>1. Install(r, mem) /\ mem \in Settings /\ UNCHANGED <<next, top>> /\ leaked \subseteq leaked'
    BY <1>5 DEF Rebuild, TypeOK
  <2>2. QED
    BY <2>1, InstallEffect, BuiltType DEF KeptOrDropped
<1>6. QED
  BY <1>1, <1>2, <1>3, <1>4, <1>5 DEF Handle

LEMMA HandleOrdering == ASSUME TypeOK, TypeOK', Ordering, NEW r \in Puts, Handle(r) PROVE Ordering'
<1>1. /\ UNCHANGED <<next, top>> /\ leaked \subseteq leaked'
      /\ current' = current \/ current' = Nobody \/ (current' = r /\ fwd'[r].hand = 0 /\ fwd'[r].queue = <<>>)
      /\ \A f \in Forwarders : KeptOrDropped(f)
  BY HandleRows
<1>2. \A f \in Forwarders : Held(f)' \subseteq Held(f) \cup {0}
  BY <1>1 DEF Held, KeptOrDropped
<1>3. current' = current \/ current' = Nobody \/ \A y \in Held(current)' : y = 0
  BY <1>1 DEF Held
<1>4. Written' /\ Behind'
  BY <1>1, <1>2, <1>3, NothingNew DEF Ordering, Written
<1>5. ASSUME NEW f \in Forwarders \ leaked', fwd'[f].pc \in Alive
      PROVE  \/ /\ fwd'[f].queue = fwd[f].queue /\ fwd'[f].hand = fwd[f].hand
                /\ fwd[f].pc \in Alive /\ f \notin leaked
             \/ fwd'[f].queue = <<>> /\ fwd'[f].hand = 0
  BY <1>1, <1>5 DEF KeptOrDropped
<1>6. Newest'
  BY <1>1, <1>5 DEF Ordering, Newest
<1>7. InOrder'
  <2> SUFFICES ASSUME NEW f \in Forwarders \ leaked', fwd'[f].pc \in Alive
               PROVE  LET s == fwd'[f].queue IN
                        /\ Len(s) <= QueueSize
                        /\ fwd'[f].hand # 0 => top' < fwd'[f].hand
                        /\ \A i \in 1..Len(s) : top' < s[i] /\ fwd'[f].hand < s[i]
                        /\ \A i \in 1..Len(s) : s[i] = s[1] + i - 1
    BY DEF InOrder
  <2>1. CASE fwd'[f].queue = <<>> /\ fwd'[f].hand = 0
    BY <2>1, ForwarderAssumption
  <2>2. CASE ~(fwd'[f].queue = <<>> /\ fwd'[f].hand = 0)
    <3>1. /\ fwd'[f].queue = fwd[f].queue /\ fwd'[f].hand = fwd[f].hand
          /\ fwd[f].pc \in Alive /\ f \notin leaked
      BY <1>5, <2>2
    <3>2. QED
      BY <1>1, <3>1 DEF Ordering, InOrder
  <2>3. QED
    BY <2>1, <2>2
<1>8. QED
  BY <1>4, <1>6, <1>7 DEF Ordering

LEMMA StepOrdering == TypeOK /\ TypeOK' /\ Matching /\ Matching' /\ Ordering /\ [Next]_vars => Ordering'
<1> SUFFICES ASSUME TypeOK, TypeOK', Matching, Matching', Ordering, [Next]_vars PROVE Ordering'
  OBVIOUS
<1>1. CASE Write
  BY <1>1, WriteOrdering
<1>2. ASSUME NEW f \in Forwarders, Run(f) PROVE Ordering'
  BY <1>2, RunOrdering
<1>3. ASSUME NEW r \in Puts, Handle(r) PROVE Ordering'
  BY <1>3, HandleOrdering
<1>4. CASE UNCHANGED vars
  BY <1>4 DEF vars, Ordering, Written, Behind, Newest, InOrder, Held
<1>5. QED
  BY <1>1, <1>2, <1>3, <1>4 DEF Next

(* What a forwarder has still to send is in order, without a gap, and newer than all
   that went out, through overflows, failures and replacements (submit, _run). *)
THEOREM RowsInOrder == Spec => []InOrder
<1>1. Ordering => InOrder
  BY DEF Ordering
<1>2. QED
  BY InitTypes, StepTypes, InitMatching, StepMatching, InitOrdering, StepOrdering, <1>1, PTL DEF Spec

-----------------------------------------------------------------------------
(* The roster.                                                             *)

Made == {r \in Requests : change[r].stage # "idle"}

\* The file's version counts the requests that were made.
VersionCounts == config.ver = Cardinality(Made)

\* A Cluster that is not enabled any more will be cleared ...
LeftPve  == \A c \in Clusters \ Esxi : dict[c] # NoLoad /\ c \notin config.enabled
              => \E q \in Requests : change[q].stage = "stopping"

\* ... and so will an adapter, by a request before its load.
LeftEsxi == \A c \in Esxi : dict[c] # NoLoad /\ c \notin config.enabled
              => \E q \in Requests : change[q].stage \in {"stopping", "adapters"}

RosterParts == VersionCounts /\ LeftPve /\ LeftEsxi /\ RosterMatches

-----------------------------------------------------------------------------
\* The requests that were made are finitely many, and no more than there are.
LEMMA MadeSize == /\ IsFiniteSet(Made) /\ Cardinality(Made) \in Nat
                  /\ Cardinality(Made) <= Cardinality(Requests)
                  /\ Cardinality(Requests) \in Nat
  BY RosterAssumption, FS_Subset, FS_CardinalityType DEF Made

\* A request that is made now was not made before, so that it fits under the bound.
LEMMA MadeGrows == ASSUME RosterTypeOK, VersionCounts, NEW r \in Requests, Update(r)
                   PROVE  VersionCounts' /\ config'.ver \in 0..Cardinality(Requests)
<1>1. Made' = Made \cup {r} /\ r \notin Made
  BY DEF Update, Made, RosterTypeOK
<1>2. Cardinality(Made') = Cardinality(Made) + 1
  BY <1>1, MadeSize, FS_AddElement
<1>3. config'.ver = config.ver + 1
  BY DEF Update
<1>4. Cardinality(Made') <= Cardinality(Requests)
  <2>1. Made' \subseteq Requests
    BY DEF Made
  <2>2. QED
    BY <2>1, RosterAssumption, FS_Subset
<1>5. QED
  BY <1>2, <1>3, <1>4, MadeSize DEF VersionCounts

\* Steps of a request that was made leave the count alone.
LEMMA MadeKept == ASSUME VersionCounts, UNCHANGED config, Made' = Made PROVE VersionCounts'
  BY DEF VersionCounts

LEMMA ObjTypes == RosterTypeOK => PveObjs \subseteq Clusters \X Loads /\ AdapterObjs \subseteq Clusters \X Loads
  BY DEF RosterTypeOK, PveObjs, AdapterObjs, Known

-----------------------------------------------------------------------------
LEMMA RosterInitTypes == RosterInit => RosterTypeOK
<1> SUFFICES ASSUME RosterInit PROVE RosterTypeOK
  OBVIOUS
<1>1. PICK enabled \in SUBSET Clusters :
        /\ config = [ver |-> 0, enabled |-> enabled] /\ lasting = enabled
        /\ dict = [c \in Clusters |-> IF c \in enabled THEN FirstLoad ELSE NoLoad]
        /\ poller = [c \in Clusters |-> [l \in Loads |->
                       IF l = FirstLoad /\ c \in enabled THEN "starting" ELSE "none"]]
  BY DEF RosterInit
<1>2. 0 \in 0..Cardinality(Requests)
  BY MadeSize
<1>3. built \in [Loads -> 0..Cardinality(Requests)]
  BY <1>2 DEF RosterInit
<1>4. change \in [Requests -> [stage : ReloadStages, todo : SUBSET (Clusters \X Loads)]]
  BY DEF RosterInit, ReloadStages
<1>5. dict \in [Clusters -> Loads \cup {NoLoad}] /\ poller \in [Clusters -> [Loads -> PollerStates]]
  BY <1>1 DEF Loads, PollerStates
<1>6. QED
  BY <1>1, <1>2, <1>3, <1>4, <1>5 DEF RosterInit, RosterTypeOK

LEMMA UpdateTypes == ASSUME RosterTypeOK, VersionCounts, NEW r \in Requests, Update(r) PROVE RosterTypeOK'
<1>1. PICK enabled \in SUBSET Clusters : /\ config' = [ver |-> config.ver + 1, enabled |-> enabled]
                                         /\ lasting' = lasting \cap enabled
  BY DEF Update
<1>2. config' \in [ver : 0..Cardinality(Requests), enabled : SUBSET Clusters]
  BY <1>1, MadeGrows
<1>3. change' \in [Requests -> [stage : ReloadStages, todo : SUBSET (Clusters \X Loads)]]
  BY ObjTypes DEF Update, RosterTypeOK, ReloadStages
<1>4. QED
  BY <1>1, <1>2, <1>3 DEF Update, RosterTypeOK

LEMMA LoadTypes == ASSUME RosterTypeOK, NEW r \in Requests, NEW kept \in [Clusters -> Loads \cup {NoLoad}],
                          Load(r, kept)
                   PROVE  RosterTypeOK'
<1>1. dict' \in [Clusters -> Loads \cup {NoLoad}]
  BY DEF Load, Loads
<1>2. poller' \in [Clusters -> [Loads -> PollerStates]]
  BY DEF Load, RosterTypeOK, PollerStates
<1>3. built' \in [Loads -> 0..Cardinality(Requests)]
  BY DEF Load, RosterTypeOK
<1>4. change' \in [Requests -> [stage : ReloadStages, todo : SUBSET (Clusters \X Loads)]]
  BY DEF Load, RosterTypeOK, ReloadStages
<1>5. QED
  BY <1>1, <1>2, <1>3, <1>4 DEF Load, RosterTypeOK

LEMMA ReloadTypes == ASSUME RosterTypeOK, NEW r \in Requests, Reload(r) PROVE RosterTypeOK'
<1>1. ASSUME NEW c \in Clusters, NEW l \in Loads, StopOne(r, c, l) PROVE RosterTypeOK'
  <2>1. poller' \in [Clusters -> [Loads -> PollerStates]]
    BY <1>1 DEF StopOne, AfterStop, RosterTypeOK, PollerStates
  <2>2. change' \in [Requests -> [stage : ReloadStages, todo : SUBSET (Clusters \X Loads)]]
    BY <1>1 DEF StopOne, RosterTypeOK, ReloadStages
  <2>3. QED
    BY <1>1, <2>1, <2>2 DEF StopOne, RosterTypeOK
<1>2. CASE Clear(r)
  <2>1. dict' \in [Clusters -> Loads \cup {NoLoad}]
    BY <1>2 DEF Clear, RosterTypeOK
  <2>2. change' \in [Requests -> [stage : ReloadStages, todo : SUBSET (Clusters \X Loads)]]
    BY <1>2, ObjTypes DEF Clear, RosterTypeOK, ReloadStages
  <2>3. QED
    BY <1>2, <2>1, <2>2 DEF Clear, RosterTypeOK
<1>3. CASE ClearAndLoad(r)
  BY <1>3, LoadTypes DEF ClearAndLoad
<1>4. CASE AdaptersAndLoad(r)
  <2>1. [c \in Clusters |-> IF c \in Esxi THEN NoLoad ELSE dict[c]] \in [Clusters -> Loads \cup {NoLoad}]
    BY DEF RosterTypeOK
  <2>2. QED
    BY <1>4, <2>1, LoadTypes DEF AdaptersAndLoad
<1>5. CASE Finish(r)
  <2>1. change' \in [Requests -> [stage : ReloadStages, todo : SUBSET (Clusters \X Loads)]]
    BY <1>5 DEF Finish, RosterTypeOK, ReloadStages
  <2>2. QED
    BY <1>5, <2>1 DEF Finish, RosterTypeOK
<1>6. QED
  BY <1>1, <1>2, <1>3, <1>4, <1>5 DEF Reload, StopNext

LEMMA RosterStepTypes == RosterTypeOK /\ VersionCounts /\ [RosterNext]_rosterVars => RosterTypeOK'
<1> SUFFICES ASSUME RosterTypeOK, VersionCounts, [RosterNext]_rosterVars PROVE RosterTypeOK'
  OBVIOUS
<1>1. ASSUME NEW c \in Clusters, NEW l \in Loads, Started(c, l) PROVE RosterTypeOK'
  <2>1. poller' \in [Clusters -> [Loads -> PollerStates]]
    BY <1>1 DEF Started, RosterTypeOK, PollerStates
  <2>2. QED
    BY <1>1, <2>1 DEF Started, RosterTypeOK
<1>2. CASE (\E c \in Clusters : Choose(c)) \/ Reset
  BY <1>2 DEF Choose, Reset, RosterTypeOK
<1>3. CASE UNCHANGED rosterVars
  BY <1>3 DEF rosterVars, RosterTypeOK
<1>4. QED
  BY <1>1, <1>2, <1>3, UpdateTypes, ReloadTypes DEF RosterNext

-----------------------------------------------------------------------------
LEMMA RosterInitParts == RosterInit => RosterParts
<1> SUFFICES ASSUME RosterInit PROVE RosterParts
  OBVIOUS
<1>1. Made = {} /\ config.ver = 0
  BY DEF RosterInit, Made
<1>2. VersionCounts
  BY <1>1, FS_EmptySet DEF VersionCounts
<1>3. LeftPve /\ LeftEsxi /\ RosterMatches
  BY RosterAssumption DEF RosterInit, LeftPve, LeftEsxi, RosterMatches, Loads
<1>4. QED
  BY <1>2, <1>3 DEF RosterParts

\* After a load the roster is right, or another request still has to stop things.
LEMMA LoadParts == ASSUME RosterTypeOK, RosterParts, NEW r \in Requests, NEW kept, Load(r, kept), change[r].stage # "idle",
                          \A c \in Clusters \ config.enabled : kept[c] # NoLoad =>
                            /\ c \notin Esxi /\ kept[c] = dict[c]
                            /\ change[r].stage # "stopping"
                   PROVE  RosterParts'
<1>1. /\ dict' = [c \in Clusters |-> IF c \in config.enabled THEN r ELSE kept[c]]
      /\ poller' = [c \in Clusters |-> [l \in Loads |->
                      IF l = r /\ c \in config.enabled THEN "starting" ELSE poller[c][l]]]
      /\ built' = [built EXCEPT ![r] = config.ver]
      /\ change' = [change EXCEPT ![r] = [stage |-> "starting", todo |-> {}]]
      /\ UNCHANGED config
      /\ r \in Loads
  BY DEF Load, Loads
<1>2. VersionCounts'
  <2>1. Made' = Made
    BY <1>1 DEF Made, RosterTypeOK
  <2>2. QED
    BY <1>1, <2>1, MadeKept DEF RosterParts
<1>3. LeftPve'
  BY <1>1 DEF RosterParts, LeftPve, RosterTypeOK
<1>4. LeftEsxi'
  BY <1>1, RosterAssumption DEF LeftEsxi
<1>5. ASSUME Quiet' PROVE \A c \in Clusters : c \notin config.enabled => dict'[c] = NoLoad
  BY <1>1, <1>3, <1>4, <1>5 DEF LeftPve, LeftEsxi, Quiet
<1>6. RosterMatches'
  <2>1. \A c \in config.enabled : /\ dict'[c] = r /\ built'[r] = config.ver /\ poller'[c][r] = "starting"
    BY <1>1 DEF RosterTypeOK
  <2>2. QED
    BY <1>1, <1>5, <2>1 DEF RosterMatches
<1>7. QED
  BY <1>2, <1>3, <1>4, <1>6 DEF RosterParts

LEMMA ReloadParts == ASSUME RosterTypeOK, RosterParts, NEW r \in Requests, Reload(r) PROVE RosterParts'
<1>1. ASSUME NEW c \in Clusters, NEW l \in Loads, StopOne(r, c, l) PROVE RosterParts'
  <2>1. /\ change[r].stage \in {"stopping", "adapters"} /\ UNCHANGED <<config, dict, built>>
        /\ \A q \in Requests : change'[q].stage = change[q].stage
    BY <1>1 DEF StopOne, RosterTypeOK
  <2>2. Made' = Made /\ ~Quiet'
    BY <2>1 DEF Made, Quiet
  <2>3. QED
    BY <2>1, <2>2, MadeKept DEF RosterParts, LeftPve, LeftEsxi, RosterMatches
<1>2. CASE Clear(r)
  <2>1. /\ UNCHANGED config /\ change[r].stage = "stopping"
        /\ dict' = [c \in Clusters |-> IF c \in Esxi THEN dict[c] ELSE NoLoad]
        /\ change'[r].stage = "adapters" /\ \A q \in Requests \ {r} : change'[q] = change[q]
    BY <1>2 DEF Clear, RosterTypeOK
  <2>2. Made' = Made /\ ~Quiet'
    BY <2>1 DEF Made, Quiet
  <2>3. LeftPve' /\ LeftEsxi'
    BY <2>1, RosterAssumption DEF LeftPve, LeftEsxi
  <2>4. QED
    BY <2>1, <2>2, <2>3, MadeKept DEF RosterParts, RosterMatches
<1>3. CASE ClearAndLoad(r)
  BY <1>3, LoadParts DEF ClearAndLoad
<1>4. CASE AdaptersAndLoad(r)
  BY <1>4, LoadParts DEF AdaptersAndLoad
<1>5. CASE Finish(r)
  <2>1. /\ UNCHANGED <<config, dict, poller, built>> /\ change[r].stage = "starting"
        /\ change'[r].stage = "done" /\ \A q \in Requests \ {r} : change'[q] = change[q]
    BY <1>5 DEF Finish, RosterTypeOK
  <2>2. Made' = Made /\ (Quiet' => Quiet)
    BY <2>1 DEF Made, Quiet
  <2>3. LeftPve' /\ LeftEsxi'
    BY <2>1 DEF RosterParts, LeftPve, LeftEsxi
  <2>4. QED
    BY <2>1, <2>2, <2>3, MadeKept DEF RosterParts, RosterMatches
<1>6. QED
  BY <1>1, <1>2, <1>3, <1>4, <1>5 DEF Reload, StopNext

LEMMA RosterStepParts == RosterTypeOK /\ RosterParts /\ [RosterNext]_rosterVars => RosterParts'
<1> SUFFICES ASSUME RosterTypeOK, RosterParts, [RosterNext]_rosterVars PROVE RosterParts'
  OBVIOUS
<1>1. ASSUME NEW r \in Requests, Update(r) PROVE RosterParts'
  <2>1. change'[r].stage = "stopping" /\ VersionCounts'
    BY <1>1, MadeGrows DEF Update, RosterTypeOK, RosterParts
  <2>2. QED
    BY <2>1 DEF RosterParts, LeftPve, LeftEsxi, RosterMatches, Quiet
<1>2. ASSUME NEW c \in Clusters, NEW l \in Loads, Started(c, l) PROVE RosterParts'
  <2>1. /\ UNCHANGED <<config, dict, built, change>>
        /\ \A d \in Clusters, k \in Loads :
             poller[d][k] \in {"starting", "polling"} => poller'[d][k] \in {"starting", "polling"}
    BY <1>2 DEF Started, RosterTypeOK
  <2>2. VersionCounts' /\ LeftPve' /\ LeftEsxi'
    BY <2>1, MadeKept DEF RosterParts, Made, LeftPve, LeftEsxi
  <2>3. RosterMatches'
    BY <2>1 DEF RosterParts, RosterMatches, Quiet
  <2>4. QED
    BY <2>2, <2>3 DEF RosterParts
<1>3. CASE (\E c \in Clusters : Choose(c)) \/ Reset \/ UNCHANGED rosterVars
  <2>1. UNCHANGED <<config, dict, poller, built, change>>
    BY <1>3 DEF Choose, Reset, rosterVars
  <2>2. QED
    BY <2>1 DEF RosterParts, VersionCounts, Made, LeftPve, LeftEsxi, RosterMatches, Quiet
<1>4. QED
  BY <1>1, <1>2, <1>3, ReloadParts DEF RosterNext

-----------------------------------------------------------------------------
\* The roster, its objects, the requests and the page keep their types.
THEOREM RosterTypes == RosterSpec => []RosterTypeOK
<1>1. RosterTypeOK /\ RosterParts /\ [RosterNext]_rosterVars => (RosterTypeOK /\ RosterParts)'
  BY RosterStepTypes, RosterStepParts DEF RosterParts
<1>2. RosterInit => RosterTypeOK /\ RosterParts
  BY RosterInitTypes, RosterInitParts
<1>3. QED
  BY <1>1, <1>2, PTL DEF RosterSpec

\* When no request has anything left to stop, the roster is what the file says.
THEOREM RosterIsFile == RosterSpec => []RosterMatches
<1>1. RosterTypeOK /\ RosterParts /\ [RosterNext]_rosterVars => (RosterTypeOK /\ RosterParts)'
  BY RosterStepTypes, RosterStepParts DEF RosterParts
<1>2. RosterInit => RosterTypeOK /\ RosterParts
  BY RosterInitTypes, RosterInitParts
<1>3. RosterParts => RosterMatches
  BY DEF RosterParts
<1>4. QED
  BY <1>1, <1>2, <1>3, PTL DEF RosterSpec

-----------------------------------------------------------------------------
(* The page's choice.                                                      *)

\* A cluster that no version has disabled is out of the dictionary only between the
\* clear and the load of a request that stops the adapters.
Present == /\ lasting \subseteq config.enabled
           /\ \A c \in lasting : dict[c] = NoLoad => \E r \in Requests : change[r].stage = "adapters"

LEMMA InitPresent == RosterInit => Present
  BY RosterAssumption DEF RosterInit, Present

\* A load brings every cluster that is enabled back.
LEMMA LoadPresent == ASSUME RosterTypeOK, Present, NEW r \in Requests, NEW kept, Load(r, kept)
                     PROVE  Present'
<1>1. /\ UNCHANGED <<config, lasting>> /\ r # NoLoad
      /\ dict' = [c \in Clusters |-> IF c \in config.enabled THEN r ELSE kept[c]]
  BY RosterAssumption DEF Load
<1>2. \A c \in lasting : dict'[c] = r
  BY <1>1 DEF Present, RosterTypeOK
<1>3. QED
  BY <1>1, <1>2 DEF Present

LEMMA StepPresent == RosterTypeOK /\ Present /\ [RosterNext]_rosterVars => Present'
<1> SUFFICES ASSUME RosterTypeOK, Present, [RosterNext]_rosterVars PROVE Present'
  OBVIOUS
<1>1. ASSUME NEW r \in Requests, Update(r) PROVE Present'
  BY <1>1 DEF Update, Present, RosterTypeOK
<1>2. ASSUME NEW r \in Requests, Reload(r) PROVE Present'
  <2>1. ASSUME NEW c \in Clusters, NEW l \in Loads, StopOne(r, c, l) PROVE Present'
    BY <2>1 DEF StopOne, Present, RosterTypeOK
  <2>2. CASE Clear(r)
    <3>1. UNCHANGED <<config, lasting>> /\ change'[r].stage = "adapters"
      BY <2>2 DEF Clear, RosterTypeOK
    <3>2. QED
      BY <3>1 DEF Present
  <2>3. CASE ClearAndLoad(r) \/ AdaptersAndLoad(r)
    BY <2>3, LoadPresent DEF ClearAndLoad, AdaptersAndLoad
  <2>4. CASE Finish(r)
    <3>1. /\ UNCHANGED <<config, lasting, dict>> /\ change[r].stage = "starting"
          /\ \A q \in Requests \ {r} : change'[q] = change[q]
      BY <2>4 DEF Finish, RosterTypeOK
    <3>2. QED
      BY <3>1 DEF Present
  <2>5. QED
    BY <1>2, <2>1, <2>2, <2>3, <2>4 DEF Reload, StopNext
<1>3. CASE \/ \E c \in Clusters, l \in Loads : Started(c, l)
           \/ \E c \in Clusters : Choose(c)
           \/ Reset
           \/ UNCHANGED rosterVars
  <2>1. UNCHANGED <<config, lasting, dict, change>>
    BY <1>3 DEF Started, Choose, Reset, rosterVars
  <2>2. QED
    BY <2>1 DEF Present
<1>4. QED
  BY <1>1, <1>2, <1>3 DEF RosterNext

\* The page gives its choice up where a snapshot does not have it, and nowhere else.
LEMMA ResetOnly == ASSUME RosterTypeOK, [RosterNext]_rosterVars, chosen # All, chosen' = All
                   PROVE  chosen \in Clusters /\ dict[chosen] = NoLoad
<1>1. UNCHANGED chosen \/ Reset \/ \E c \in Clusters : Choose(c)
  BY DEF RosterNext, rosterVars, Update, Reload, StopNext, StopOne, Clear, ClearAndLoad,
         AdaptersAndLoad, Load, Finish, Started
<1>2. Reset
  BY <1>1, RosterAssumption DEF Choose
<1>3. QED
  BY <1>2 DEF Reset, Known, RosterTypeOK

(* "Selected cluster no longer exists": the page gives up its choice of a cluster only
   where a version of the file has disabled it, or while a reload is stopping the
   adapters (reload_all_clusters, the check of App.tsx that the cluster exists). *)
THEOREM ChoiceKeptButInReload == RosterSpec => ChoiceLostOnlyInReload
<1>1. RosterTypeOK /\ RosterParts /\ Present /\ [RosterNext]_rosterVars
        => (RosterTypeOK /\ RosterParts /\ Present)'
  BY RosterStepTypes, RosterStepParts, StepPresent DEF RosterParts
<1>2. RosterInit => RosterTypeOK /\ RosterParts /\ Present
  BY RosterInitTypes, RosterInitParts, InitPresent
<1>3. RosterTypeOK /\ Present /\ [RosterNext]_rosterVars
        => (chosen # All /\ chosen' = All
              => chosen \notin lasting \/ \E r \in Requests : change[r].stage = "adapters")
  BY ResetOnly DEF Present
<1>4. QED
  BY <1>1, <1>2, <1>3, PTL DEF RosterSpec, ChoiceLostOnlyInReload
=============================================================================
