------------------------------ MODULE LiveFeed ------------------------------
(***************************************************************************)
(* The live feed: one page of the dashboard and the daemon that streams    *)
(* the clusters' data to it (src/client/useWebSocket.ts, the feed's part   *)
(* of src/client/App.tsx, and broadcast_to_clients and websocket_handler   *)
(* of server/server.py).                                                   *)
(*                                                                         *)
(* The page may have several sockets at a time: a close is asked for long  *)
(* before its event comes, and connect() looks only for a socket that is   *)
(* OPEN.  Every socket has the same handlers, and all of them write the    *)
(* one state of the hook.  Each cluster's poll loop broadcasts on its own, *)
(* so broadcasts overlap; a broadcast awaits every send, and the set of    *)
(* clients it iterates over may change under it.                           *)
(***************************************************************************)
EXTENDS Integers, Sequences, FiniteSets

CONSTANTS
  Socks,      \* bound: sockets of the page that are alive at the same time
  NoSock,     \* wsRef.current = null
  Pollers,    \* clusters, each with a poll loop that broadcasts
  MaxVer,     \* bound: versions of the clusters' data
  MaxDown,    \* bound: snapshots on their way to the page, per socket
  MaxUp,      \* bound: messages on their way to the daemon, per socket
  MaxFaults   \* bound: things that go wrong on the network or in the daemon

ASSUME FeedAssumption ==
  /\ NoSock \notin Socks /\ IsFiniteSet(Socks) /\ Socks # {}
  /\ MaxVer \in Nat \ {0} /\ MaxDown \in Nat \ {0} /\ MaxUp \in Nat \ {0}
  /\ MaxFaults \in Nat

VARIABLES
  \* the page
  cur,       \* wsRef.current
  ready,     \* readyState; "free" is a socket that does not exist
  connected, \* state.connected
  stale,     \* connected, and no message for 15 s
  pinger,    \* the socket the one ping interval writes to, NoSock when cleared
  timer,     \* the reconnect timer is armed
  visible,   \* lastVisible
  shown,     \* version of the data on the page, 0 before the first
  \* the network
  link,      \* sockets whose two ends hear each other
  down,      \* snapshots on their way to the page
  up,        \* messages on their way to the daemon
  \* the daemon
  ver,       \* version of what get_all_data() returns
  srv,       \* the socket's websocket_handler: not yet, running, ended
  feeding,   \* ws_clients
  paused,    \* sockets with _jtp_paused
  bc,        \* per poll loop: the broadcast under way
  faults

page == <<cur, ready, connected, stale, pinger, timer, visible, shown>>
net  == <<link, down, up>>
dmn  == <<ver, srv, feeding, paused, bc>>
vars == <<page, net, dmn, faults>>

\* A broadcast: the version it captured, the size the set of clients had, which
\* Python compares, the clients it has still to come to, those a send to failed.
NoBroadcast == [on |-> FALSE, ver |-> 0, size |-> 0, todo |-> {}, dead |-> {}]

-----------------------------------------------------------------------------
(* The page.                                                               *)

\* Socket names nothing refers to any more.
Free == {s \in Socks : /\ ready[s] = "free" /\ srv[s] # "running" /\ s # pinger /\ s # cur
                       /\ s \notin feeding
                       /\ \A p \in Pollers : s \notin bc[p].dead}

Fresh == CHOOSE s \in Free : TRUE

\* new WebSocket(...); state.connecting shows only in the label and is left out.
NewSocket(states) ==
  /\ cur' = Fresh
  /\ ready' = [states EXCEPT ![Fresh] = "connecting"]
  /\ link' = link \cup {Fresh}
  /\ down' = [down EXCEPT ![Fresh] = <<>>] /\ up' = [up EXCEPT ![Fresh] = <<>>]
  /\ srv' = [srv EXCEPT ![Fresh] = "awaited"]

\* connect(): an OPEN socket is kept, one that is CONNECTING is not.
Connect ==
  IF cur # NoSock /\ ready[cur] = "open"
  THEN UNCHANGED <<cur, ready, link, down, up, srv>>
  ELSE Free # {} /\ NewSocket(ready)

\* onopen; the socket's predecessor may still be closing.
Open(s) ==
  /\ ready[s] = "connecting" /\ srv[s] = "running" /\ s \in link
  /\ ready' = [ready EXCEPT ![s] = "open"]
  /\ connected' = TRUE /\ stale' = FALSE /\ pinger' = s
  /\ UNCHANGED <<cur, timer, visible, shown, net, dmn, faults>>

\* onmessage of any socket that is OPEN, and App.tsx's setClusters.
Receive(s) ==
  /\ ready[s] = "open" /\ s \in link /\ down[s] # <<>>
  /\ down' = [down EXCEPT ![s] = Tail(@)]
  /\ shown' = Head(down[s])
  /\ stale' = FALSE
  /\ UNCHANGED <<cur, ready, connected, pinger, timer, visible, link, up, dmn, faults>>

\* Variant: a ping that is sent counts as a sign of life.
PingPong_OnSend(s) ==
  /\ pinger = s /\ ready[s] = "open" /\ stale
  /\ stale' = FALSE
  /\ UNCHANGED <<cur, ready, connected, pinger, timer, visible, shown, net, dmn, faults>>

\* The interval's ping and the daemon's pong, which is answered on the feed or off it.
PingPong(s) ==
  /\ pinger = s /\ ready[s] = "open" /\ s \in link /\ srv[s] = "running" /\ stale
  /\ stale' = FALSE
  /\ UNCHANGED <<cur, ready, connected, pinger, timer, visible, shown, net, dmn, faults>>

\* onclose, of whichever socket: it takes the connection for lost, clears the
\* ping interval and arms the reconnect timer.
Closed(s, rearm) ==
  /\ ready' = [ready EXCEPT ![s] = "free"]
  /\ connected' = FALSE /\ stale' = FALSE
  /\ pinger' = NoSock
  /\ timer' = (timer \/ rearm)
  /\ link' = link \ {s}
  /\ down' = [down EXCEPT ![s] = <<>>] /\ up' = [up EXCEPT ![s] = <<>>]
  /\ UNCHANGED <<cur, visible, shown, dmn, faults>>

\* The events that must come: of a close that was asked for, of an end of the
\* daemon's side, of a connection that is never made.
MustClose(s) ==
  \/ ready[s] = "closing"
  \/ ready[s] \in {"connecting", "open"} /\ srv[s] = "ended" /\ s \in link
  \/ ready[s] = "connecting" /\ s \notin link

\* Variant: only a connection that was open is tried again.
OnClose_OnceOpen(s) == MustClose(s) /\ Closed(s, connected)

OnClose(s) == MustClose(s) /\ Closed(s, TRUE)

\* The operating system gives up on a connection that is gone; it may never do so.
TcpGivesUp(s) == ready[s] = "open" /\ s \notin link /\ Closed(s, TRUE)

TimerFires ==
  /\ timer /\ timer' = FALSE
  /\ Connect
  /\ UNCHANGED <<connected, stale, pinger, visible, shown, ver, feeding, paused, bc, faults>>

\* disconnect(): the socket's own onclose is still to come.
Disconnected == IF cur # NoSock /\ ready[cur] \in {"connecting", "open"}
                THEN [ready EXCEPT ![cur] = "closing"] ELSE ready

\* The health check: disconnect(), then connect(), which finds wsRef empty.
HealthCheck ==
  /\ stale
  /\ Free # {}
  /\ NewSocket(Disconnected)
  /\ timer' = FALSE /\ pinger' = NoSock
  /\ UNCHANGED <<connected, stale, visible, shown, ver, feeding, paused, bc, faults>>

\* 15 s without a message.  They pass for certain when nothing can come in, and
\* may pass at any time: a laptop that sleeps, a network that stalls.
NothingComesIn ==
  \A s \in Socks : ready[s] = "open" /\ s \in link /\ srv[s] = "running" =>
                      s # pinger /\ (s \notin feeding \/ s \in paused)

FallSilent ==
  /\ connected /\ ~stale /\ stale' = TRUE
  /\ \/ NothingComesIn /\ UNCHANGED faults
     \/ faults < MaxFaults /\ faults' = faults + 1
  /\ UNCHANGED <<cur, ready, connected, pinger, timer, visible, shown, net, dmn>>

\* send(): dropped unless wsRef is OPEN; lost where nobody hears it.
Send(msg) ==
  IF cur # NoSock /\ ready[cur] = "open" /\ cur \in link
  THEN Len(up[cur]) < MaxUp /\ up' = [up EXCEPT ![cur] = Append(@, msg)]
  ELSE UNCHANGED up

\* apply(), on visibilitychange, focus and blur.
Hide ==
  /\ visible /\ visible' = FALSE
  /\ Send("pause")
  /\ UNCHANGED <<cur, ready, connected, stale, pinger, timer, shown, link, down, dmn, faults>>

\* Variant: the daemon is told only when the page is on a connection it believes in.
Show_Believing ==
  /\ ~visible /\ visible' = TRUE
  /\ IF connected THEN Send("refresh") ELSE UNCHANGED up
  /\ UNCHANGED <<cur, ready, connected, stale, pinger, timer, shown, link, down, dmn, faults>>

\* "resume" and, right behind it, "refresh", which is all "resume" is and a snapshot.
Show ==
  /\ ~visible /\ visible' = TRUE
  /\ Send("refresh")
  /\ UNCHANGED <<cur, ready, connected, stale, pinger, timer, shown, link, down, dmn, faults>>

-----------------------------------------------------------------------------
(* The daemon's handler of a socket.                                       *)

\* Where a frame to s ends up: with the page, or nowhere.
Reaches(s) == s \in link /\ ready[s] \in {"connecting", "open"}

Push(s, v) == IF Reaches(s) THEN Len(down[s]) < MaxDown /\ down' = [down EXCEPT ![s] = Append(@, v)]
                            ELSE UNCHANGED down

\* The socket joins ws_clients and gets its first snapshot.  A broadcast that is
\* iterating over the set may or may not come to it, if it goes on at all.
Accept(s) ==
  /\ srv[s] = "awaited" /\ s \in link
  /\ srv' = [srv EXCEPT ![s] = "running"]
  /\ feeding' = feeding \cup {s} /\ paused' = paused \ {s}
  /\ Push(s, ver)
  /\ \E late \in SUBSET {p \in Pollers : bc[p].on} :
       bc' = [p \in Pollers |-> IF p \in late THEN [bc[p] EXCEPT !.todo = @ \cup {s}] ELSE bc[p]]
  /\ UNCHANGED <<page, link, up, ver, faults>>

\* Variant: a snapshot that is asked for leaves the pause as it is.
Handle_KeepsPause(s) ==
  /\ srv[s] = "running" /\ up[s] # <<>>
  /\ up' = [up EXCEPT ![s] = Tail(@)]
  /\ paused' = IF Head(up[s]) = "pause" THEN paused \cup {s} ELSE paused
  /\ IF Head(up[s]) = "refresh" THEN Push(s, ver) ELSE UNCHANGED down
  /\ UNCHANGED <<page, link, ver, srv, feeding, bc, faults>>

\* The next message: pause, or refresh with its own snapshot.
Handle(s) ==
  /\ srv[s] = "running" /\ up[s] # <<>>
  /\ up' = [up EXCEPT ![s] = Tail(@)]
  /\ paused' = IF Head(up[s]) = "pause" THEN paused \cup {s} ELSE paused \ {s}
  /\ IF Head(up[s]) = "refresh" THEN Push(s, ver) ELSE UNCHANGED down
  /\ UNCHANGED <<page, link, ver, srv, feeding, bc, faults>>

\* The handler's loop ends and its finally takes the socket off the feed.
End(s) ==
  /\ srv' = [srv EXCEPT ![s] = "ended"]
  /\ feeding' = feeding \ {s}
  /\ paused' = paused \ {s}
  /\ bc' = [p \in Pollers |-> [bc[p] EXCEPT !.todo = @ \ {s}]]
  /\ up' = [up EXCEPT ![s] = <<>>]
  /\ UNCHANGED <<page, link, down, ver>>

\* The page's side has closed, or the heartbeat of 30 s was not answered.
Leave(s) ==
  /\ srv[s] = "running" /\ (s \notin link \/ ready[s] \in {"closing", "free"})
  /\ End(s) /\ UNCHANGED faults

\* The handler, a proxy between the two or the daemon ends a connection, or the
\* upgrade is refused.
Drop(s) ==
  /\ ready[s] \in {"connecting", "open"} /\ srv[s] # "ended"
  /\ faults < MaxFaults /\ faults' = faults + 1
  /\ End(s)

\* The network breaks, and tells neither side.
Break(s) ==
  /\ s \in link /\ ready[s] # "free"
  /\ faults < MaxFaults /\ faults' = faults + 1
  /\ link' = link \ {s}
  /\ down' = [down EXCEPT ![s] = <<>>] /\ up' = [up EXCEPT ![s] = <<>>]
  /\ UNCHANGED <<page, dmn>>

-----------------------------------------------------------------------------
(* broadcast_to_clients, called by every poll loop after every poll.  The  *)
(* snapshot carries the time, so its hash is never the last one's.         *)

Poll(p) ==
  /\ ~bc[p].on
  /\ ver' \in {ver, ver + 1} /\ ver' <= MaxVer
  /\ bc' = IF feeding = {} THEN bc
           ELSE [bc EXCEPT ![p] = [on |-> TRUE, ver |-> ver', size |-> Cardinality(feeding),
                                   todo |-> feeding, dead |-> {}]]
  /\ UNCHANGED <<page, net, srv, feeding, paused, faults>>

\* Iterating over a set whose size has changed raises; a set of the same size
\* goes on, and may or may not come to a client that has joined.
SizeKept(p) == Cardinality(feeding) = bc[p].size

Comes(p, s) == bc[p].on /\ SizeKept(p) /\ s \in bc[p].todo

Skip(p, s) ==
  /\ Comes(p, s) /\ s \in paused
  /\ bc' = [bc EXCEPT ![p].todo = @ \ {s}]
  /\ UNCHANGED <<page, net, ver, srv, feeding, paused, faults>>

SendTo(p, s) ==
  /\ Comes(p, s) /\ s \notin paused
  /\ bc' = [bc EXCEPT ![p].todo = @ \ {s}]
  /\ Push(s, bc[p].ver)
  /\ UNCHANGED <<page, link, up, ver, srv, feeding, paused, faults>>

\* The send takes more than 2 s, or fails: the client is taken off the feed at the
\* end of the broadcast, and nothing closes its socket.
SendFails(p, s) ==
  /\ Comes(p, s) /\ s \notin paused
  /\ \/ ~Reaches(s) /\ UNCHANGED faults
     \/ Reaches(s) /\ faults < MaxFaults /\ faults' = faults + 1
  /\ bc' = [bc EXCEPT ![p].todo = @ \ {s}, ![p].dead = @ \cup {s}]
  /\ UNCHANGED <<page, net, ver, srv, feeding, paused>>

\* The loop is through: ws_clients.difference_update(dead_clients).
Finish(p) ==
  /\ bc[p].on /\ SizeKept(p) /\ bc[p].todo = {}
  /\ feeding' = feeding \ bc[p].dead
  /\ bc' = [bc EXCEPT ![p] = NoBroadcast]
  /\ UNCHANGED <<page, net, ver, srv, paused, faults>>

\* RuntimeError: the rest of the clients miss this one.
Abort(p) ==
  /\ bc[p].on /\ ~SizeKept(p)
  /\ bc' = [bc EXCEPT ![p] = NoBroadcast]
  /\ UNCHANGED <<page, net, ver, srv, feeding, paused, faults>>

-----------------------------------------------------------------------------
\* The page is loaded: the effect of the mount has called connect().
Init ==
  /\ cur = CHOOSE s \in Socks : TRUE
  /\ ready = [s \in Socks |-> IF s = cur THEN "connecting" ELSE "free"]
  /\ connected = FALSE /\ stale = FALSE /\ pinger = NoSock /\ timer = FALSE
  /\ visible = TRUE /\ shown = 0
  /\ link = {cur}
  /\ down = [s \in Socks |-> <<>>] /\ up = [s \in Socks |-> <<>>]
  /\ ver = 1
  /\ srv = [s \in Socks |-> IF s = cur THEN "awaited" ELSE "ended"]
  /\ feeding = {} /\ paused = {}
  /\ bc = [p \in Pollers |-> NoBroadcast]
  /\ faults = 0

Browser(s) == Open(s) \/ Receive(s) \/ PingPong(s) \/ OnClose(s) \/ TcpGivesUp(s)
User       == Hide \/ Show
Handler(s) == Accept(s) \/ Handle(s) \/ Leave(s)
Broadcast(p) ==
  \/ Poll(p) \/ Finish(p) \/ Abort(p)
  \/ \E s \in Socks : Skip(p, s) \/ SendTo(p, s) \/ SendFails(p, s)

Next ==
  \/ \E s \in Socks : Browser(s) \/ Handler(s) \/ Drop(s) \/ Break(s)
  \/ TimerFires \/ HealthCheck \/ FallSilent
  \/ User
  \/ \E p \in Pollers : Broadcast(p)

Spec == Init /\ [][Next]_vars

\* Timers, event handlers and tasks run; the user and the network need not do
\* anything, and a connection that is gone need not be noticed.
FairSpec ==
  /\ Spec
  /\ WF_vars(TimerFires) /\ WF_vars(HealthCheck)
  /\ WF_vars(NothingComesIn /\ FallSilent)
  /\ \A s \in Socks : /\ WF_vars(Open(s)) /\ WF_vars(Receive(s)) /\ WF_vars(PingPong(s))
                      /\ WF_vars(OnClose(s))
                      /\ WF_vars(Accept(s)) /\ WF_vars(Handle(s)) /\ WF_vars(Leave(s))
  /\ \A p \in Pollers :
       /\ WF_vars(Poll(p)) /\ WF_vars(Finish(p)) /\ WF_vars(Abort(p))
       /\ \A s \in Socks : WF_vars(Skip(p, s) \/ SendTo(p, s) \/ SendFails(p, s))

-----------------------------------------------------------------------------
ReadyStates == {"free", "connecting", "open", "closing"}
Messages    == {"pause", "refresh"}

Broadcasts  == [on : BOOLEAN, ver : 0..MaxVer, size : Nat, todo : SUBSET Socks, dead : SUBSET Socks]

BroadcastTypes ==
  /\ bc \in [Pollers -> Broadcasts]
  /\ \A p \in Pollers : bc[p].on => bc[p].ver # 0

(* Types of the state. *)
TypeOK ==
  /\ cur \in Socks \cup {NoSock} /\ pinger \in Socks \cup {NoSock}
  /\ ready \in [Socks -> ReadyStates]
  /\ connected \in BOOLEAN /\ stale \in BOOLEAN /\ timer \in BOOLEAN
  /\ visible \in BOOLEAN
  /\ shown \in 0..MaxVer /\ ver \in 1..MaxVer
  /\ link \subseteq Socks /\ feeding \subseteq Socks /\ paused \subseteq Socks
  /\ down \in [Socks -> Seq(1..MaxVer)] /\ up \in [Socks -> Seq(Messages)]
  /\ srv \in [Socks -> {"awaited", "running", "ended"}]
  /\ BroadcastTypes
  /\ faults \in 0..MaxFaults

\* Whether the daemon will have s paused once it has read what is on the way.
WillBePaused(s) == IF up[s] = <<>> THEN s \in paused ELSE up[s][Len(up[s])] = "pause"

(* A page that is looked at is never left paused by the daemon: through hides,
   shows, sends that were dropped because the socket was not OPEN, and new sockets
   (App.tsx, apply; useWebSocket.ts, send; websocket_handler, pause and refresh). *)
HeardWhenSeen ==
  visible /\ cur # NoSock /\ ready[cur] = "open" /\ cur \in link /\ srv[cur] = "running"
    => ~WillBePaused(cur)

(* "Tells the WS server to stop streaming us cluster updates while we can't render
   them": the same of a page that is hidden. *)
HiddenIsNotFed ==
  ~visible /\ cur # NoSock /\ ready[cur] = "open" /\ cur \in link /\ srv[cur] = "running"
    => WillBePaused(cur)

(* The hook never runs out of things to do: it has a socket, or a close event to
   come that will arm the timer, or the timer (connect, disconnect, onclose). *)
NeverStranded ==
  \/ timer
  \/ cur # NoSock /\ ready[cur] \in {"connecting", "open"}
  \/ \E s \in Socks : ready[s] = "closing"

\* The socket s is one the page can be fed through.
Live(s) == ready[s] = "open" /\ s \in link /\ srv[s] = "running"

(* "Health check - detect stale connection": a page that believes it is connected
   and has no connection left finds out, or gets a new one. *)
DeadLinkNoticed ==
  (connected /\ ~\E s \in Socks : Live(s)) ~> (~connected \/ \E s \in Socks : Live(s))

(* The same of every page, whether it believes it is connected or not.  *)
DeadLinkReplaced == (~\E s \in Socks : Live(s)) ~> \E s \in Socks : Live(s)

Watching == visible /\ cur # NoSock /\ Live(cur)

(* A page that is watched, over a connection that lasts and is on the feed, comes
   to show the latest data and keeps it, whatever broadcasts were cut short or
   overtaken, and whatever other sockets it still has. *)
FeedDelivers == <>[](Watching /\ cur \in feeding) => <>[](shown = ver)

(* "Sends {type: update} whenever cluster state changes": the same of a page that
   has a connection, on the feed or not. *)
ConnectedIsFed == <>[]Watching => <>[](shown = ver)
=============================================================================
