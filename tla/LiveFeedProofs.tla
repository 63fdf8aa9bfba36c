--------------------------- MODULE LiveFeedProofs ---------------------------
(***************************************************************************)
(* For any number of sockets, pollers, versions and faults: the page never *)
(* runs out of things to do, and the daemon does not keep a page paused    *)
(* that is looked at.                                                      *)
(***************************************************************************)
EXTENDS LiveFeed, FiniteSetTheorems, SequenceTheorems, TLAPS

\* A connect that goes ahead has a name for its socket.
LEMMA FreshIsFree == Free # {} => Fresh \in Free
  BY DEF Fresh

\* Every set of sockets has a size.
LEMMA Sizes == ASSUME NEW S, S \subseteq Socks PROVE Cardinality(S) \in Nat
  BY FeedAssumption, FS_Subset, FS_CardinalityType

\* A broadcast that is let alone keeps its types.
LEMMA BcKept == BroadcastTypes /\ UNCHANGED bc => BroadcastTypes'
  BY DEF BroadcastTypes

LEMMA BcSet == ASSUME BroadcastTypes, NEW p \in Pollers, NEW b \in Broadcasts, b.ver # 0,
                      bc' = [bc EXCEPT ![p] = b]
               PROVE BroadcastTypes'
  BY DEF BroadcastTypes

LEMMA PushTypes == ASSUME TypeOK, NEW s \in Socks, NEW v \in 1..MaxVer, Push(s, v)
                   PROVE down' \in [Socks -> Seq(1..MaxVer)]
<1>1. CASE Reaches(s)
  <2>1. Append(down[s], v) \in Seq(1..MaxVer)
    BY DEF TypeOK
  <2>2. QED
    BY <1>1, <2>1 DEF TypeOK, Push
<1>2. CASE ~Reaches(s)
  BY <1>2 DEF TypeOK, Push
<1>3. QED
  BY <1>1, <1>2

LEMMA SendTypes == ASSUME TypeOK, NEW m \in Messages, Send(m)
                   PROVE up' \in [Socks -> Seq(Messages)]
<1>1. CASE UNCHANGED up
  BY <1>1 DEF TypeOK
<1>2. CASE cur \in Socks /\ up' = [up EXCEPT ![cur] = Append(@, m)]
  <2>1. Append(up[cur], m) \in Seq(Messages)
    BY <1>2 DEF TypeOK
  <2>2. QED
    BY <1>2, <2>1 DEF TypeOK
<1>3. QED
  BY <1>1, <1>2 DEF Send, TypeOK

LEMMA ClosedTypes == ASSUME TypeOK, NEW s \in Socks, Closed(s, TRUE) PROVE TypeOK'
<1>1. timer' = TRUE /\ connected' = FALSE /\ stale' = FALSE /\ pinger' = NoSock
  BY DEF Closed
<1>2. /\ ready' \in [Socks -> ReadyStates] /\ link' \subseteq Socks
      /\ down' \in [Socks -> Seq(1..MaxVer)] /\ up' \in [Socks -> Seq(Messages)]
  <2>1. /\ ready' = [ready EXCEPT ![s] = "free"] /\ link' = link \ {s}
        /\ down' = [down EXCEPT ![s] = <<>>] /\ up' = [up EXCEPT ![s] = <<>>]
    BY DEF Closed
  <2>2. QED
    BY <2>1 DEF TypeOK, ReadyStates
<1>3. UNCHANGED <<cur, visible, shown, ver, srv, feeding, paused, bc, faults>>
  BY DEF Closed, dmn
<1>4. QED
  BY <1>1, <1>2, <1>3, BcKept DEF TypeOK

LEMMA NewSocketTypes == ASSUME TypeOK, Free # {}, NEW states \in [Socks -> ReadyStates], NewSocket(states)
                        PROVE /\ cur' \in Socks /\ ready' \in [Socks -> ReadyStates]
                              /\ link' \subseteq Socks
                              /\ down' \in [Socks -> Seq(1..MaxVer)] /\ up' \in [Socks -> Seq(Messages)]
                              /\ srv' \in [Socks -> {"awaited", "running", "ended"}]
<1>1. Fresh \in Socks
  BY FreshIsFree DEF Free
<1>2. QED
  BY <1>1 DEF NewSocket, TypeOK, ReadyStates

LEMMA EndTypes == ASSUME TypeOK, NEW s \in Socks, End(s), faults' \in 0..MaxFaults PROVE TypeOK'
<1>1. BroadcastTypes'
  BY DEF End, TypeOK, BroadcastTypes, Broadcasts
<1>2. /\ srv' \in [Socks -> {"awaited", "running", "ended"}]
      /\ up' \in [Socks -> Seq(Messages)]
      /\ feeding' \subseteq Socks /\ paused' \subseteq Socks
  BY DEF End, TypeOK
<1>3. QED
  BY <1>1, <1>2 DEF End, page, TypeOK

-----------------------------------------------------------------------------
\* The feed's variables have their types from the start.
LEMMA InitTypes == Init => TypeOK
<1> SUFFICES ASSUME Init PROVE TypeOK
  OBVIOUS
<1>1. cur \in Socks
  BY FeedAssumption DEF Init
<1>2. BroadcastTypes
  BY FeedAssumption DEF Init, BroadcastTypes, Broadcasts, NoBroadcast
<1>3. QED
  <2>1. /\ ready \in [Socks -> ReadyStates]
        /\ down \in [Socks -> Seq(1..MaxVer)] /\ up \in [Socks -> Seq(Messages)]
        /\ srv \in [Socks -> {"awaited", "running", "ended"}]
    BY DEF Init, ReadyStates
  <2>2. QED
    <3>1. /\ pinger = NoSock /\ connected = FALSE /\ stale = FALSE /\ timer = FALSE /\ visible = TRUE
          /\ shown = 0 /\ ver = 1 /\ link = {cur} /\ feeding = {} /\ paused = {} /\ faults = 0
      BY DEF Init
    <3>2. QED
      <4>1. shown \in 0..MaxVer /\ ver \in 1..MaxVer /\ faults \in 0..MaxFaults
        BY <3>1, FeedAssumption
      <4>2. connected \in BOOLEAN /\ stale \in BOOLEAN /\ timer \in BOOLEAN /\ visible \in BOOLEAN
        BY <3>1
      <4>3. /\ cur \in Socks \cup {NoSock} /\ pinger \in Socks \cup {NoSock}
            /\ link \subseteq Socks /\ feeding \subseteq Socks /\ paused \subseteq Socks
        BY <1>1, <3>1
      <4>4. QED
        BY <1>2, <2>1, <4>1, <4>2, <4>3 DEF TypeOK

\* Every step keeps the types.
LEMMA StepTypes == TypeOK /\ [Next]_vars => TypeOK'
<1> SUFFICES ASSUME TypeOK, [Next]_vars PROVE TypeOK'
  OBVIOUS
<1> USE FeedAssumption
<1>1. ASSUME NEW s \in Socks, Open(s) PROVE TypeOK'
  BY <1>1, BcKept DEF Open, net, dmn, TypeOK, ReadyStates, Messages
<1>2. ASSUME NEW s \in Socks, Receive(s) PROVE TypeOK'
  <2>1. shown' \in 0..MaxVer /\ down' \in [Socks -> Seq(1..MaxVer)]
    BY <1>2 DEF Receive, TypeOK
  <2>2. QED
    BY <1>2, <2>1, BcKept DEF Receive, dmn, TypeOK
<1>3. ASSUME NEW s \in Socks, PingPong(s) PROVE TypeOK'
  BY <1>3, BcKept DEF PingPong, net, dmn, TypeOK, ReadyStates, Messages
<1>4. ASSUME NEW s \in Socks, OnClose(s) PROVE TypeOK'
  BY <1>4, ClosedTypes DEF OnClose
<1>5. ASSUME NEW s \in Socks, TcpGivesUp(s) PROVE TypeOK'
  BY <1>5, ClosedTypes DEF TcpGivesUp
<1>6. ASSUME NEW s \in Socks, Accept(s) PROVE TypeOK'
  <2>1. down' \in [Socks -> Seq(1..MaxVer)]
    BY <1>6, PushTypes DEF Accept, TypeOK
  <2>2. BroadcastTypes'
    <3>1. PICK late : bc' = [q \in Pollers |-> IF q \in late THEN [bc[q] EXCEPT !.todo = @ \cup {s}] ELSE bc[q]]
      BY <1>6 DEF Accept
    <3>2. \A q \in Pollers : bc[q] \in Broadcasts
      BY DEF TypeOK, BroadcastTypes, Broadcasts
    <3>3. \A q \in Pollers : /\ bc'[q].on = bc[q].on /\ bc'[q].ver = bc[q].ver
                             /\ bc'[q] \in Broadcasts
      BY <3>1, <3>2 DEF Broadcasts
    <3>4. QED
      BY <3>1, <3>3 DEF TypeOK, BroadcastTypes, Broadcasts
  <2>3. QED
    BY <1>6, <2>1, <2>2 DEF Accept, page, TypeOK
<1>7. ASSUME NEW s \in Socks, Handle(s) PROVE TypeOK'
  <2>1. down' \in [Socks -> Seq(1..MaxVer)]
    BY <1>7, PushTypes DEF Handle, TypeOK
  <2>2. up' \in [Socks -> Seq(Messages)]
    BY <1>7 DEF Handle, TypeOK
  <2>3. QED
    BY <1>7, <2>1, <2>2, BcKept DEF Handle, page, TypeOK
<1>8. ASSUME NEW s \in Socks, Leave(s) PROVE TypeOK'
  BY <1>8, EndTypes DEF Leave, TypeOK
<1>9. ASSUME NEW s \in Socks, Drop(s) PROVE TypeOK'
  <2>1. faults' \in 0..MaxFaults
    BY <1>9 DEF Drop, TypeOK
  <2>2. QED
    BY <1>9, <2>1, EndTypes DEF Drop
<1>10. ASSUME NEW s \in Socks, Break(s) PROVE TypeOK'
  BY <1>10, BcKept DEF Break, page, dmn, TypeOK, ReadyStates, Messages
<1>11. ASSUME TimerFires PROVE TypeOK'
  <2>1. CASE cur # NoSock /\ ready[cur] = "open"
    BY <1>11, <2>1, BcKept DEF TimerFires, Connect, TypeOK
  <2>2. CASE ~(cur # NoSock /\ ready[cur] = "open")
    <3>1. Free # {} /\ NewSocket(ready) /\ ready \in [Socks -> ReadyStates]
      BY <1>11, <2>2 DEF TimerFires, Connect, TypeOK
    <3>2. QED
      BY <1>11, <3>1, NewSocketTypes, BcKept DEF TimerFires, TypeOK
  <2>3. QED
    BY <2>1, <2>2
<1>12. ASSUME HealthCheck PROVE TypeOK'
  <2>1. Disconnected \in [Socks -> ReadyStates]
    BY DEF Disconnected, TypeOK, ReadyStates
  <2>2. QED
    BY <1>12, <2>1, NewSocketTypes, BcKept DEF HealthCheck, TypeOK
<1>13. ASSUME FallSilent PROVE TypeOK'
  BY <1>13, BcKept DEF FallSilent, net, dmn, TypeOK, ReadyStates, Messages
<1>14. ASSUME Hide PROVE TypeOK'
  <2>1. up' \in [Socks -> Seq(Messages)]
    BY <1>14, SendTypes DEF Hide, Messages
  <2>2. QED
    BY <1>14, <2>1, BcKept DEF Hide, dmn, TypeOK
<1>15. ASSUME Show PROVE TypeOK'
  <2>1. up' \in [Socks -> Seq(Messages)]
    BY <1>15, SendTypes DEF Show, Messages
  <2>2. QED
    BY <1>15, <2>1, BcKept DEF Show, dmn, TypeOK
<1>16. ASSUME NEW p \in Pollers, Poll(p) PROVE TypeOK'
  <2>1. Cardinality(feeding) \in Nat
    BY Sizes DEF TypeOK
  <2>2. ver' \in 1..MaxVer
    BY <1>16 DEF Poll, TypeOK
  <2>3. CASE feeding = {}
    BY <1>16, <2>2, <2>3, BcKept DEF Poll, page, net, TypeOK
  <2>4. CASE feeding # {}
    <3> DEFINE b == [on |-> TRUE, ver |-> ver', size |-> Cardinality(feeding), todo |-> feeding, dead |-> {}]
    <3>1. bc' = [bc EXCEPT ![p] = b]
      BY <1>16, <2>4 DEF Poll
    <3>2. b \in Broadcasts /\ b.ver # 0
      BY <2>1, <2>2 DEF Broadcasts, TypeOK
    <3>3. BroadcastTypes'
      BY <3>1, <3>2, BcSet DEF TypeOK
    <3>4. QED
      BY <1>16, <2>2, <3>3 DEF Poll, page, net, TypeOK
  <2>5. QED
    BY <2>3, <2>4
<1>17. ASSUME NEW p \in Pollers, Finish(p) PROVE TypeOK'
  <2>1. BroadcastTypes'
    BY <1>17 DEF Finish, NoBroadcast, TypeOK, BroadcastTypes, Broadcasts
  <2>2. QED
    BY <1>17, <2>1 DEF Finish, page, net, TypeOK
<1>18. ASSUME NEW p \in Pollers, Abort(p) PROVE TypeOK'
  <2>1. BroadcastTypes'
    BY <1>18 DEF Abort, NoBroadcast, TypeOK, BroadcastTypes, Broadcasts
  <2>2. QED
    BY <1>18, <2>1 DEF Abort, page, net, TypeOK
<1>19. ASSUME NEW p \in Pollers, NEW s \in Socks, Skip(p, s) PROVE TypeOK'
  <2>1. BroadcastTypes'
    BY <1>19 DEF Skip, TypeOK, BroadcastTypes, Broadcasts
  <2>2. QED
    BY <1>19, <2>1 DEF Skip, page, net, TypeOK
<1>20. ASSUME NEW p \in Pollers, NEW s \in Socks, SendTo(p, s) PROVE TypeOK'
  <2>1. bc[p].on /\ bc[p].ver \in 1..MaxVer
    BY <1>20 DEF SendTo, Comes, TypeOK, BroadcastTypes, Broadcasts
  <2>2. down' \in [Socks -> Seq(1..MaxVer)]
    BY <1>20, <2>1, PushTypes DEF SendTo
  <2>3. BroadcastTypes'
    BY <1>20 DEF SendTo, TypeOK, BroadcastTypes, Broadcasts
  <2>4. QED
    BY <1>20, <2>2, <2>3 DEF SendTo, page, TypeOK
<1>21. ASSUME NEW p \in Pollers, NEW s \in Socks, SendFails(p, s) PROVE TypeOK'
  <2>1. BroadcastTypes'
    <3>1. bc' = [bc EXCEPT ![p].todo = @ \ {s}, ![p].dead = @ \cup {s}]
      BY <1>21 DEF SendFails
    <3>2. bc[p] \in Broadcasts /\ bc[p].on /\ bc[p].ver # 0
      BY <1>21 DEF SendFails, Comes, TypeOK, BroadcastTypes, Broadcasts
    <3>3. [bc[p] EXCEPT !.todo = @ \ {s}, !.dead = @ \cup {s}] \in Broadcasts
      BY <3>2 DEF Broadcasts
    <3>4. QED
      <4> DEFINE b == [bc[p] EXCEPT !.todo = @ \ {s}, !.dead = @ \cup {s}]
      <4>1. bc' = [bc EXCEPT ![p] = b]
        BY <3>1
      <4>2. b.ver # 0
        BY <3>2 DEF Broadcasts
      <4> HIDE DEF b
      <4>3. QED
        BY <3>3, <4>1, <4>2, BcSet DEF TypeOK, b
  <2>2. faults' \in 0..MaxFaults
    BY <1>21 DEF SendFails, TypeOK
  <2>3. QED
    BY <1>21, <2>1, <2>2 DEF SendFails, page, net, TypeOK
<1>22. ASSUME UNCHANGED vars PROVE TypeOK'
  BY <1>22, BcKept DEF vars, page, net, dmn, TypeOK
<1>23. QED
  BY <1>1, <1>2, <1>3, <1>4, <1>5, <1>6, <1>7, <1>8, <1>9, <1>10, <1>11, <1>12, <1>13, <1>14,
     <1>15, <1>16, <1>17, <1>18, <1>19, <1>20, <1>21, <1>22
     DEF Next, Browser, User, Handler, Broadcast

-----------------------------------------------------------------------------
\* A socket that is connecting has heard nothing yet and nothing is said on it;
\* the daemon keeps a pause only as long as the socket's handler runs.
NewIsClean == \A s \in Socks : ready[s] = "connecting" => up[s] = <<>> /\ s \notin paused
PauseEnds  == \A s \in paused : srv[s] = "running"

\* HeardWhenSeen, of a socket whose handler may have ended as well.
Heard == visible /\ cur # NoSock /\ ready[cur] = "open" /\ cur \in link => ~WillBePaused(cur)

Parts == NewIsClean /\ PauseEnds /\ Heard /\ NeverStranded

\* The variables Parts is about, and the steps that leave them alone.
heard == <<cur, ready, timer, visible, link, up, srv, paused>>

LEMMA Elsewhere ==
  ASSUME \/ \E s \in Socks : Receive(s) \/ PingPong(s)
         \/ FallSilent
         \/ \E p \in Pollers : Broadcast(p)
         \/ UNCHANGED vars
  PROVE  UNCHANGED heard
<1>1. ASSUME \E s \in Socks : Receive(s) \/ PingPong(s) PROVE UNCHANGED heard
  BY <1>1 DEF Receive, PingPong, heard, net, dmn
<1>2. ASSUME FallSilent PROVE UNCHANGED heard
  BY <1>2 DEF FallSilent, heard, net, dmn
<1>3. ASSUME NEW p \in Pollers, Broadcast(p) PROVE UNCHANGED heard
  BY <1>3 DEF Broadcast, Poll, Finish, Abort, Skip, SendTo, SendFails, heard, page, net
<1>4. ASSUME UNCHANGED vars PROVE UNCHANGED heard
  BY <1>4 DEF vars, heard, page, net, dmn
<1>5. QED
  BY <1>1, <1>2, <1>3, <1>4

LEMMA InitParts == Init => Parts
<1> SUFFICES ASSUME Init PROVE Parts
  OBVIOUS
<1>1. cur \in Socks /\ ready[cur] = "connecting"
  BY FeedAssumption DEF Init
<1>2. QED
  BY <1>1, FeedAssumption DEF Init, Parts, NewIsClean, PauseEnds, Heard, NeverStranded

\* A connect that makes a socket: everything is new about it.
LEMMA NewSocketParts ==
  ASSUME TypeOK, Parts, Free # {}, NEW states \in [Socks -> ReadyStates], NewSocket(states),
         \A s \in Socks : states[s] = "connecting" => ready[s] = "connecting",
         UNCHANGED <<visible, paused>>
  PROVE  Parts'
<1>1. Fresh \in Free /\ Fresh \in Socks
  BY FreshIsFree DEF Free
<1>2. cur' = Fresh /\ ready' = [states EXCEPT ![Fresh] = "connecting"]
      /\ up' = [up EXCEPT ![Fresh] = <<>>] /\ srv' = [srv EXCEPT ![Fresh] = "awaited"]
  BY DEF NewSocket
<1>3. Fresh \notin paused
  BY <1>1 DEF Free, Parts, PauseEnds
<1>4. NewIsClean' /\ PauseEnds'
  BY <1>1, <1>2, <1>3 DEF Parts, NewIsClean, PauseEnds, TypeOK
<1>5. ready'[cur'] = "connecting" /\ cur' # NoSock
  BY <1>1, <1>2, FeedAssumption
<1>6. QED
  BY <1>4, <1>5 DEF Parts, Heard, NeverStranded

\* A socket that closes arms the timer and says nothing any more.
LEMMA ClosedParts == ASSUME TypeOK, Parts, NEW s \in Socks, Closed(s, TRUE) PROVE Parts'
<1>1. timer' = TRUE
  BY DEF Closed
<1>2. /\ ready' = [ready EXCEPT ![s] = "free"] /\ up' = [up EXCEPT ![s] = <<>>]
      /\ link' = link \ {s} /\ UNCHANGED <<cur, visible, srv, paused>>
  BY DEF Closed, dmn
<1>3. NewIsClean' /\ PauseEnds'
  BY <1>2 DEF Parts, NewIsClean, PauseEnds, TypeOK
<1>4. Heard'
  BY <1>2 DEF Parts, Heard, WillBePaused, TypeOK
<1>5. QED
  BY <1>1, <1>3, <1>4 DEF Parts, NeverStranded

LEMMA EndParts == ASSUME TypeOK, Parts, NEW s \in Socks, End(s) PROVE Parts'
<1>1. /\ srv' = [srv EXCEPT ![s] = "ended"] /\ up' = [up EXCEPT ![s] = <<>>]
      /\ paused' = paused \ {s} /\ UNCHANGED <<cur, ready, timer, visible, link>>
  BY DEF End, page
<1>2. NewIsClean' /\ PauseEnds'
  BY <1>1 DEF Parts, NewIsClean, PauseEnds, TypeOK
<1>3. Heard'
  BY <1>1 DEF Parts, Heard, WillBePaused, TypeOK
<1>4. QED
  BY <1>1, <1>2, <1>3 DEF Parts, NeverStranded

\* The last element of a sequence is the last of its tail, or its only one.
LEMMA LastOfTail == ASSUME NEW S, NEW q \in Seq(S), q # <<>>, Tail(q) # <<>>
                    PROVE  Tail(q)[Len(Tail(q))] = q[Len(q)]
<1>1. Len(q) \in Nat \ {0} /\ Len(Tail(q)) \in Nat \ {0} /\ Len(Tail(q)) = Len(q) - 1
  BY HeadTailProperties, EmptySeq
<1>2. Len(Tail(q)) \in 1..Len(Tail(q)) /\ Len(Tail(q)) + 1 = Len(q)
  BY <1>1
<1>3. QED
  BY <1>2, HeadTailProperties

LEMMA LastOne == ASSUME NEW S, NEW q \in Seq(S), q # <<>>, Tail(q) = <<>>
                 PROVE  q[Len(q)] = Head(q)
<1>1. Len(q) \in Nat \ {0} /\ Len(<<>>) = Len(q) - 1 /\ Len(<<>>) = 0
  BY HeadTailProperties, EmptySeq
<1>2. Len(q) = 1
  BY <1>1
<1>3. QED
  BY <1>2

\* The daemon reads a message: what it will do in the end is what it was.
LEMMA HandleParts == ASSUME TypeOK, Parts, NEW s \in Socks, Handle(s) PROVE Parts'
<1>1. /\ srv[s] = "running" /\ up[s] # <<>> /\ up[s] \in Seq(Messages)
      /\ up' = [up EXCEPT ![s] = Tail(@)]
      /\ paused' = IF Head(up[s]) = "pause" THEN paused \cup {s} ELSE paused \ {s}
      /\ UNCHANGED <<cur, ready, timer, visible, link, srv>>
  BY DEF Handle, page, TypeOK
<1>2. NewIsClean'
  BY <1>1 DEF Parts, NewIsClean, TypeOK
<1>3. PauseEnds'
  BY <1>1 DEF Parts, PauseEnds
<1>4. \A c \in Socks : WillBePaused(c)' => WillBePaused(c)
  <2> SUFFICES ASSUME NEW c \in Socks, WillBePaused(c)' PROVE WillBePaused(c)
    OBVIOUS
  <2>1. CASE c # s
    BY <1>1, <2>1 DEF WillBePaused, TypeOK
  <2>2. CASE c = s
    <3>1. up'[s] = Tail(up[s]) /\ Head(up[s]) = up[s][1]
      BY <1>1 DEF TypeOK
    <3>2. CASE Tail(up[s]) = <<>>
      <4>1. s \in paused'
        BY <2>2, <3>1, <3>2 DEF WillBePaused
      <4>2. Head(up[s]) = "pause"
        BY <1>1, <4>1
      <4>3. QED
        BY <1>1, <2>2, <3>2, <4>2, LastOne DEF WillBePaused
    <3>3. CASE Tail(up[s]) # <<>>
      BY <1>1, <2>2, <3>1, <3>3, LastOfTail DEF WillBePaused
    <3>4. QED
      BY <3>2, <3>3
  <2>3. QED
    BY <2>1, <2>2
<1>5. Heard'
  BY <1>1, <1>4 DEF Parts, Heard, TypeOK
<1>6. QED
  BY <1>1, <1>2, <1>3, <1>5 DEF Parts, NeverStranded

\* Every step keeps the parts.
LEMMA StepParts == TypeOK /\ Parts /\ [Next]_vars => Parts'
<1> SUFFICES ASSUME TypeOK, Parts, [Next]_vars PROVE Parts'
  OBVIOUS
<1>1. ASSUME UNCHANGED heard PROVE Parts'
  BY <1>1 DEF heard, Parts, NewIsClean, PauseEnds, Heard, WillBePaused, NeverStranded
<1>2. ASSUME NEW s \in Socks, Open(s) PROVE Parts'
  <2>1. /\ ready[s] = "connecting" /\ ready' = [ready EXCEPT ![s] = "open"]
        /\ UNCHANGED <<cur, timer, visible, link, up, srv, paused>>
    BY <1>2 DEF Open, net, dmn
  <2>2. NewIsClean' /\ PauseEnds'
    BY <2>1 DEF Parts, NewIsClean, PauseEnds, TypeOK
  <2>3. ~WillBePaused(s)'
    BY <2>1 DEF Parts, NewIsClean, WillBePaused
  <2>4. Heard'
    BY <2>1, <2>3 DEF Parts, Heard, WillBePaused, TypeOK
  <2>5. NeverStranded'
    BY <2>1 DEF Parts, NeverStranded, TypeOK
  <2>6. QED
    BY <2>2, <2>4, <2>5 DEF Parts
<1>3. ASSUME NEW s \in Socks, OnClose(s) \/ TcpGivesUp(s) PROVE Parts'
  BY <1>3, ClosedParts DEF OnClose, TcpGivesUp
<1>4. ASSUME NEW s \in Socks, Accept(s) PROVE Parts'
  <2>1. /\ srv' = [srv EXCEPT ![s] = "running"] /\ paused' = paused \ {s}
        /\ UNCHANGED <<cur, ready, timer, visible, link, up>>
    BY <1>4 DEF Accept, page
  <2>2. NewIsClean' /\ PauseEnds'
    BY <2>1 DEF Parts, NewIsClean, PauseEnds, TypeOK
  <2>3. Heard' /\ NeverStranded'
    BY <2>1 DEF Parts, Heard, WillBePaused, NeverStranded
  <2>4. QED
    BY <2>2, <2>3 DEF Parts
<1>5. ASSUME NEW s \in Socks, Handle(s) PROVE Parts'
  BY <1>5, HandleParts
<1>6. ASSUME NEW s \in Socks, Leave(s) \/ Drop(s) PROVE Parts'
  BY <1>6, EndParts DEF Leave, Drop
<1>7. ASSUME NEW s \in Socks, Break(s) PROVE Parts'
  <2>1. /\ link' = link \ {s} /\ up' = [up EXCEPT ![s] = <<>>]
        /\ UNCHANGED <<cur, ready, timer, visible, srv, paused>>
    BY <1>7 DEF Break, page, dmn
  <2>2. NewIsClean' /\ PauseEnds'
    BY <2>1 DEF Parts, NewIsClean, PauseEnds, TypeOK
  <2>3. Heard' /\ NeverStranded'
    BY <2>1 DEF Parts, Heard, WillBePaused, NeverStranded, TypeOK
  <2>4. QED
    BY <2>2, <2>3 DEF Parts
<1>8. ASSUME TimerFires PROVE Parts'
  <2>1. CASE cur # NoSock /\ ready[cur] = "open"
    <3>1. UNCHANGED <<cur, ready, visible, link, up, srv, paused>>
      BY <1>8, <2>1 DEF TimerFires, Connect
    <3>2. QED
      BY <2>1, <3>1 DEF Parts, NewIsClean, PauseEnds, Heard, WillBePaused, NeverStranded
  <2>2. CASE ~(cur # NoSock /\ ready[cur] = "open")
    <3>1. Free # {} /\ NewSocket(ready) /\ UNCHANGED <<visible, paused>>
      BY <1>8, <2>2 DEF TimerFires, Connect
    <3>2. QED
      BY <3>1, NewSocketParts DEF TypeOK
  <2>3. QED
    BY <2>1, <2>2
<1>9. ASSUME HealthCheck PROVE Parts'
  <2>1. Disconnected \in [Socks -> ReadyStates]
    BY DEF Disconnected, TypeOK, ReadyStates
  <2>2. \A s \in Socks : Disconnected[s] = "connecting" => ready[s] = "connecting"
    BY DEF Disconnected, TypeOK
  <2>3. Free # {} /\ NewSocket(Disconnected) /\ UNCHANGED <<visible, paused>>
    BY <1>9 DEF HealthCheck
  <2>4. QED
    BY <2>1, <2>2, <2>3, NewSocketParts
<1>10. ASSUME Hide PROVE Parts'
  <2>1. /\ visible' = FALSE /\ UNCHANGED <<cur, ready, timer, link, srv, paused>>
        /\ UNCHANGED up \/ (ready[cur] = "open" /\ cur \in Socks /\ up' = [up EXCEPT ![cur] = Append(@, "pause")])
    BY <1>10 DEF Hide, Send, dmn, TypeOK
  <2>2. NewIsClean' /\ PauseEnds'
    BY <2>1 DEF Parts, NewIsClean, PauseEnds, TypeOK
  <2>3. QED
    BY <2>1, <2>2 DEF Parts, Heard, NeverStranded
<1>11. ASSUME Show PROVE Parts'
  <2>1. UNCHANGED <<cur, ready, timer, link, srv, paused>>
    BY <1>11 DEF Show, dmn
  <2>2. CASE cur # NoSock /\ ready[cur] = "open" /\ cur \in link
    <3>1. cur \in Socks /\ up' = [up EXCEPT ![cur] = Append(@, "refresh")]
      BY <1>11, <2>2 DEF Show, Send, TypeOK
    <3>2. NewIsClean' /\ PauseEnds'
      BY <2>1, <2>2, <3>1 DEF Parts, NewIsClean, PauseEnds, TypeOK
    <3>3. up'[cur] # <<>> /\ up'[cur][Len(up'[cur])] = "refresh"
      <4>1. up[cur] \in Seq(Messages) /\ "refresh" \in Messages /\ up'[cur] = Append(up[cur], "refresh")
        BY <3>1 DEF TypeOK, Messages
      <4>2. QED
        BY <4>1, AppendProperties, EmptySeq
    <3>4. QED
      BY <2>1, <3>2, <3>3 DEF Parts, Heard, WillBePaused, NeverStranded
  <2>3. CASE ~(cur # NoSock /\ ready[cur] = "open" /\ cur \in link)
    <3>1. UNCHANGED up
      BY <1>11, <2>3 DEF Show, Send
    <3>2. QED
      BY <2>1, <2>3, <3>1 DEF Parts, NewIsClean, PauseEnds, Heard, NeverStranded
  <2>4. QED
    BY <2>2, <2>3
<1>12. QED
  BY <1>1, <1>2, <1>3, <1>4, <1>5, <1>6, <1>7, <1>8, <1>9, <1>10, <1>11, Elsewhere
     DEF Next, Browser, Handler, User

-----------------------------------------------------------------------------
\* The variables of the feed keep their types.
THEOREM FeedTypes == Spec => []TypeOK
<1>1. QED
  BY InitTypes, StepTypes, PTL DEF Spec

LEMMA PartsHold == Spec => []Parts
<1>1. QED
  BY InitTypes, StepTypes, InitParts, StepParts, PTL DEF Spec

\* A page that is looked at is not left paused by the daemon, however many sockets
\* it went through and however many of its messages were dropped.
THEOREM SeenIsHeard == Spec => []HeardWhenSeen
<1>1. Parts => HeardWhenSeen
  BY DEF Parts, Heard, HeardWhenSeen
<1>2. QED
  BY <1>1, PartsHold, PTL

\* The hook always has a socket, a close event to come, or its timer.
THEOREM HookGoesOn == Spec => []NeverStranded
<1>1. Parts => NeverStranded
  BY DEF Parts
<1>2. QED
  BY <1>1, PartsHold, PTL
=============================================================================
