------------------------ MODULE EvacuationPlanProofs ------------------------
(***************************************************************************)
(* What TLAPS proves of EvacuationPlan, for every cluster, every set of    *)
(* guests and memory sizes: a sweep that does not migrate back never takes *)
(* a node into its reserve, whatever the age of the poll cache; nor does   *)
(* one that migrates back, if the cache is polled between the hosts and no *)
(* node was in its reserve before.                                         *)
(*                                                                         *)
(* NeverOvercommit follows from the inductive invariant Headroom: what the *)
(* cache has not seen is in the tally (TallyCoversCache), what the planner *)
(* takes for free is free (FreeIsFree), and every placement waiting to be  *)
(* carried out has its room (RoomKept).  For the way back it takes         *)
(* HomeRoom as well: the guests that left the host fit on it again.        *)
(***************************************************************************)
EXTENDS EvacuationPlan, TLAPS

\* While the planner runs, what it takes for free on a node is free, and no more
\* than what any placement it has made there left over.
FreeIsFree ==
  phase = "placing" =>
    \A n \in Nodes :
      /\ free[n] > 0 => used[n] + free[n] <= Cap(n)
      /\ \A i \in DOMAIN plan : plan[i].to = n => free[n] <= plan[i].rest

Headroom ==
  /\ TypeOK /\ TallyCoversCache /\ RoomKept /\ FreeIsFree
  /\ phase = "restoring" => opt.back
  /\ phase # "loop" => host \in Nodes

\* Nothing is placed on the host that is being emptied.
Away ==
  phase # "loop" =>
    /\ \A g \in Guests : host \notin allowed[g]
    /\ \A i \in DOMAIN plan : plan[i].to # host

\* What the host will use at most when the guests that left it are taken home, one
\* after the other.
Climb(l) ==
  /\ l \in [0..Len(evac) -> Int] /\ l[0] = used[host]
  /\ \A i \in 0..Len(evac) : l[i] <= Cap(host)
  /\ \A i \in 1..Len(evac) : l[i - 1] + Mem[evac[i].guest] <= l[i]

\* In a sweep that migrates back no node is in its reserve, nor will the host be when
\* its guests are home.
HomeRoom ==
  opt.back =>
    /\ \A n \in Nodes : used[n] <= Cap(n)
    /\ phase \in {"placing", "moving", "restoring"} => \E l : Climb(l)

\* The sweeps the theorems are about.
CarefulSweeps ==
  \A o \in Options : o.back => o.fresh /\ \A n \in Nodes : Used0[n] <= Cap(n)

-----------------------------------------------------------------------------

LEMMA CapTyped ==
  ASSUME NEW n \in Nodes
  PROVE  Cap(n) \in Int /\ Size[n] \in Nat /\ Reserve[n] \in Nat
BY HeadroomAssumption DEF Cap

\* What is known of a placement.
LEMMA PlacementTyped ==
  ASSUME NEW p \in Placement
  PROVE  /\ p.guest \in Guests /\ p.to \in Nodes /\ p.rest \in Nat /\ p.rest \in Int
         /\ Mem[p.guest] \in Nat /\ Mem[p.guest] \in Int /\ Mem[p.guest] > 0
BY HeadroomAssumption DEF Placement

\* What is known of the memory of a node.
LEMMA MemoryTyped ==
  ASSUME TypeOK, NEW n \in Nodes
  PROVE  /\ used[n] \in Int /\ seenUsed[n] \in Int
         /\ committed[n] \in Nat /\ free[n] \in Nat
BY DEF TypeOK

\* The indices of a sequence, and of the sequence with an element appended.
LEMMA AppendOf ==
  ASSUME NEW S, NEW s \in Seq(S), NEW e \in S
  PROVE  /\ Append(s, e) \in Seq(S)
         /\ Len(s) \in Nat /\ DOMAIN s = 1..Len(s)
         /\ DOMAIN Append(s, e) = 1..(Len(s) + 1)
         /\ Append(s, e)[Len(s) + 1] = e
         /\ \A i \in DOMAIN s : Append(s, e)[i] = s[i] /\ s[i] \in S
OBVIOUS

LEMMA InitHeadroom ==
  ASSUME Init
  PROVE  Headroom
<1> USE HeadroomAssumption DEF Init, NoMemory
<1>1. TypeOK
  BY DEF TypeOK
<1>2. TallyCoversCache
  <2>1. ASSUME NEW n \in Nodes
        PROVE  used[n] <= seenUsed[n] + committed[n]
    <3>1. Used0[n] \in Int /\ Used0[n] <= Used0[n] + 0
      OBVIOUS
    <3>2. used[n] = Used0[n] /\ seenUsed[n] = Used0[n] /\ committed[n] = 0
      BY Zenon
    <3> QED
      BY <3>1, <3>2
  <2> QED
    BY <2>1 DEF TallyCoversCache
<1>3. RoomKept /\ FreeIsFree
  BY DEF RoomKept, FreeIsFree
<1> QED
  BY <1>1, <1>2, <1>3 DEF Headroom

\* The planner starts from what is free.
LEMMA BeginKeeps ==
  ASSUME Headroom, NEW h \in Nodes, NEW targets \in SUBSET (Nodes \ {h}),
         BeginHost(h, targets), opt.back => opt.fresh
  PROVE  Headroom'
<1> USE HeadroomAssumption DEF Headroom
<1>1. ASSUME NEW n \in Nodes
      PROVE  Budget(n) \in Nat /\ (Budget(n) > 0 => used[n] + Budget(n) <= Cap(n))
  <2>1. /\ used[n] \in Int /\ seenUsed[n] \in Int /\ committed[n] \in Nat
        /\ used[n] <= seenUsed[n] + committed[n]
    <3>1. CASE opt.back
      BY <3>1 DEF BeginHost, TypeOK
    <3>2. CASE ~opt.back
      BY <3>2 DEF TypeOK, TallyCoversCache
    <3> QED
      BY <3>1, <3>2
  <2> QED
    BY <2>1, CapTyped DEF Budget, Cap
<1>2. TypeOK'
  <2>1. free' \in [Nodes -> Nat]
    BY <1>1 DEF BeginHost
  <2>2. allowed' \in [Guests -> SUBSET Nodes] /\ todo' \subseteq Guests
    BY DEF BeginHost
  <2>3. plan' \in Seq(Placement) /\ evac' \in Seq(Placement)
    BY DEF BeginHost
  <2>4. host' \in Nodes /\ left' \subseteq Nodes /\ phase' = "placing"
    BY DEF BeginHost, TypeOK
  <2>5. UNCHANGED <<opt, where, used, seenWhere, seenUsed, committed>>
    BY DEF BeginHost, cluster, cache
  <2> QED
    BY <2>1, <2>2, <2>3, <2>4, <2>5 DEF TypeOK
<1>3. FreeIsFree'
  <2>1. plan' = <<>> /\ used' = used
    BY DEF BeginHost, cluster
  <2>2. ASSUME NEW n \in Nodes, free'[n] > 0
        PROVE  used'[n] + free'[n] <= Cap(n)
    BY <1>1, <2>1, <2>2 DEF BeginHost
  <2> QED
    BY <2>1, <2>2 DEF FreeIsFree, Cap
<1> QED
  BY <1>2, <1>3 DEF BeginHost, TallyCoversCache, RoomKept, Cap, cluster, cache

\* A turn of the planner takes its placement's room from what is free.
LEMMA PlaceKeeps ==
  ASSUME Headroom, NEW g \in Guests, NEW t \in Nodes, Place(g, t)
  PROVE  Headroom'
<1> USE HeadroomAssumption DEF Headroom
<1> DEFINE p == [guest |-> g, to |-> t, rest |-> free[t] - Mem[g]]
<1>1. /\ Mem[g] \in Nat /\ Mem[g] > 0 /\ free[t] \in Nat /\ free[t] >= Mem[g]
      /\ used[t] \in Int /\ used[t] + free[t] <= Cap(t)
      /\ \A i \in DOMAIN plan : plan[i].to = t => free[t] <= plan[i].rest
  <2>1. Mem[g] \in Nat /\ Mem[g] > 0 /\ free[t] \in Nat /\ used[t] \in Int
    BY MemoryTyped
  <2>2. phase = "placing" /\ free[t] >= Mem[g]
    BY DEF Place, Fits
  <2>3. free[t] > 0
    BY <2>1, <2>2
  <2> QED
    BY <2>1, <2>2, <2>3 DEF FreeIsFree
<1>2. p \in Placement
  BY <1>1 DEF Placement
<1>3. /\ plan \in Seq(Placement) /\ plan' = Append(plan, p) /\ plan' \in Seq(Placement)
      /\ DOMAIN plan' = 1..(Len(plan) + 1) /\ DOMAIN plan = 1..Len(plan) /\ Len(plan) \in Nat
      /\ plan'[Len(plan) + 1] = p
      /\ \A i \in DOMAIN plan : plan'[i] = plan[i] /\ plan[i] \in Placement
  <2>1. plan \in Seq(Placement) /\ plan' = Append(plan, p)
    BY DEF Place, TypeOK
  <2> QED
    BY <1>2, <2>1, AppendOf
<1>4. /\ used' = used /\ phase = "placing" /\ phase' = phase
      /\ free' = [free EXCEPT ![t] = free[t] - Mem[g]]
  BY DEF Place, cluster
<1>5. TypeOK'
  <2>1. free' \in [Nodes -> Nat]
    <3>1. free[t] - Mem[g] \in Nat
      BY <1>1
    <3>2. free \in [Nodes -> Nat]
      BY DEF TypeOK
    <3> QED
      BY <1>4, <3>1, <3>2
  <2> QED
    BY <1>3, <2>1 DEF Place, TypeOK, cluster, cache
<1>6. RoomKept'
  <2> SUFFICES ASSUME NEW i \in DOMAIN plan'
               PROVE  /\ used[plan'[i].to] + Mem[plan'[i].guest] + plan'[i].rest
                           <= Cap(plan'[i].to)
                      /\ \A k \in DOMAIN plan' : i < k /\ plan'[i].to = plan'[k].to =>
                           plan'[k].rest + Mem[plan'[k].guest] <= plan'[i].rest
    BY <1>4 DEF RoomKept, Cap
  <2>1. CASE i \in DOMAIN plan
    <3>1. used[plan'[i].to] + Mem[plan'[i].guest] + plan'[i].rest <= Cap(plan'[i].to)
      BY <1>3, <1>4, <2>1 DEF RoomKept
    <3>2. ASSUME NEW k \in DOMAIN plan', i < k, plan'[i].to = plan'[k].to
          PROVE  plan'[k].rest + Mem[plan'[k].guest] <= plan'[i].rest
      <4>1. CASE k \in DOMAIN plan
        BY <1>3, <1>4, <2>1, <3>2, <4>1 DEF RoomKept
      <4>2. CASE k = Len(plan) + 1
        <5>1. plan[i].to = t /\ plan'[k] = p /\ plan'[i] = plan[i]
          BY <1>3, <2>1, <3>2, <4>2
        <5>2. free[t] <= plan[i].rest /\ plan[i].rest \in Int
          BY <1>1, <1>3, <2>1, <5>1, PlacementTyped
        <5>3. (free[t] - Mem[g]) + Mem[g] <= plan[i].rest
          BY <1>1, <5>2
        <5> QED
          BY <5>1, <5>3
      <4> QED
        BY <1>3, <4>1, <4>2
    <3> QED
      BY <3>1, <3>2
  <2>2. CASE i = Len(plan) + 1
    <3>1. plan'[i] = p /\ \A k \in DOMAIN plan' : ~(i < k)
      BY <1>3, <2>2
    <3>2. used[t] + Mem[g] + (free[t] - Mem[g]) <= Cap(t)
      BY <1>1, CapTyped
    <3> QED
      BY <3>1, <3>2
  <2>3. i \in DOMAIN plan \/ i = Len(plan) + 1
    BY <1>3
  <2> QED
    BY <2>1, <2>2, <2>3
<1>7. FreeIsFree'
  <2> SUFFICES ASSUME NEW n \in Nodes
               PROVE  /\ free'[n] > 0 => used[n] + free'[n] <= Cap(n)
                      /\ \A i \in DOMAIN plan' : plan'[i].to = n => free'[n] <= plan'[i].rest
    BY <1>4 DEF FreeIsFree, Cap
  <2>1. CASE n = t
    <3>1. free'[n] = free[t] - Mem[g]
      BY <1>4, <2>1 DEF TypeOK
    <3>2. ASSUME NEW i \in DOMAIN plan', plan'[i].to = n
          PROVE  free'[n] <= plan'[i].rest
      <4>1. CASE i \in DOMAIN plan
        <5>1. plan'[i] = plan[i] /\ plan[i].rest \in Int /\ free[t] <= plan[i].rest
          BY <1>1, <1>3, <2>1, <3>2, <4>1, PlacementTyped
        <5> QED
          BY <1>1, <3>1, <5>1
      <4>2. CASE i = Len(plan) + 1
        BY <1>1, <1>3, <3>1, <4>2
      <4> QED
        BY <1>3, <4>1, <4>2
    <3> QED
      BY <1>1, <2>1, <3>1, <3>2, CapTyped
  <2>2. CASE n # t
    <3>1. free'[n] = free[n]
      BY <1>4, <2>2 DEF TypeOK
    <3>2. ASSUME NEW i \in DOMAIN plan', plan'[i].to = n
          PROVE  i \in DOMAIN plan
      BY <1>3, <2>2, <3>2
    <3> QED
      BY <1>3, <1>4, <3>1, <3>2 DEF FreeIsFree
  <2> QED
    BY <2>1, <2>2
<1> QED
  BY <1>5, <1>6, <1>7 DEF Place, TallyCoversCache, cluster, cache, Cap

\* The head of the plan and what follows it.
LEMMA TailOf ==
  ASSUME NEW S, NEW s \in Seq(S), s # <<>>
  PROVE  /\ Head(s) \in S /\ Head(s) = s[1] /\ 1 \in DOMAIN s
         /\ Tail(s) \in Seq(S)
         /\ \A i \in DOMAIN Tail(s) : i + 1 \in DOMAIN s /\ Tail(s)[i] = s[i + 1]
         /\ \A i \in DOMAIN Tail(s) : i \in Nat /\ i + 1 > 1
OBVIOUS

\* A migration fills no more than its placement's room.
LEMMA MoveKeeps ==
  ASSUME Headroom, Move
  PROVE  /\ Headroom'
         /\ \A n \in Nodes : used'[n] > used[n] => used'[n] <= Cap(n)
<1> USE HeadroomAssumption DEF Headroom
<1> DEFINE p == plan[1]
<1>1. /\ plan \in Seq(Placement) /\ plan # <<>> /\ p \in Placement /\ 1 \in DOMAIN plan
      /\ plan' = Tail(plan) /\ plan' \in Seq(Placement)
      /\ \A i \in DOMAIN plan' : i + 1 \in DOMAIN plan /\ plan'[i] = plan[i + 1] /\ 1 < i + 1
  BY TailOf DEF Move, TypeOK
<1>2. /\ p.guest \in Guests /\ p.to \in Nodes /\ p.rest \in Nat
      /\ Mem[p.guest] \in Nat \ {0}
      /\ used[p.to] \in Int /\ used[p.to] + Mem[p.guest] + p.rest <= Cap(p.to)
  BY <1>1 DEF Placement, Move, RoomKept, TypeOK
<1>3. /\ where' = [where EXCEPT ![p.guest] = p.to]
      /\ \A n \in Nodes :
            /\ n # p.to => used'[n] \in {used[n], used[n] - Mem[p.guest]}
            /\ n = p.to => used'[n] \in {used[n], used[n] + Mem[p.guest]}
      /\ DOMAIN used' = Nodes /\ used' = [n \in Nodes |-> used'[n]]
      /\ committed' = [committed EXCEPT ![p.to] = @ + Mem[p.guest]]
      /\ evac' = Append(evac, p) /\ host = where[p.guest]
  BY <1>1, TailOf DEF Move, Migrate, Tally, TypeOK
<1>4. ASSUME NEW n \in Nodes
      PROVE  /\ used'[n] \in Int /\ committed'[n] \in Nat
             /\ n # p.to => used'[n] <= used[n] /\ committed'[n] = committed[n]
             /\ n = p.to => used'[n] <= used[n] + Mem[p.guest]
                            /\ committed'[n] = committed[n] + Mem[p.guest]
  <2>1. used \in [Nodes -> Int] /\ committed \in [Nodes -> Nat] /\ Mem[p.guest] \in Nat
    BY <1>2 DEF TypeOK
  <2> HIDE DEF p
  <2>2. committed'[n] = IF n = p.to THEN committed[n] + Mem[p.guest] ELSE committed[n]
    BY <1>3, <2>1
  <2>3. /\ used[n] \in Int /\ committed[n] \in Nat
        /\ n # p.to => used'[n] = used[n] \/ used'[n] = used[n] - Mem[p.guest]
        /\ n = p.to => used'[n] = used[n] \/ used'[n] = used[n] + Mem[p.guest]
    BY <1>3, <2>1
  <2> QED
    BY <2>1, <2>2, <2>3
<1>5. TypeOK'
  <2>1. used' \in [Nodes -> Int] /\ committed' \in [Nodes -> Nat]
    BY <1>3, <1>4 DEF TypeOK
  <2>2. evac' \in Seq(Placement) /\ where' \in [Guests -> Nodes]
    BY <1>1, <1>2, <1>3 DEF TypeOK
  <2> QED
    BY <1>1, <2>1, <2>2 DEF Move, TypeOK, cache, planner
<1>6. ASSUME NEW n \in Nodes, used'[n] > used[n]
      PROVE  used'[n] <= Cap(n)
  <2>1. used[n] \in Int /\ Cap(n) \in Int
    BY CapTyped, MemoryTyped
  <2>2. n = p.to
    BY <1>4, <1>6, <2>1
  <2> QED
    BY <1>2, <1>4, <2>1, <2>2
<1>7. TallyCoversCache'
  <2> SUFFICES ASSUME ~opt.back, NEW n \in Nodes
               PROVE  used'[n] <= seenUsed[n] + committed'[n]
    BY DEF Move, TallyCoversCache, cache
  <2>1. /\ used[n] \in Int /\ seenUsed[n] \in Int /\ committed[n] \in Nat
        /\ used[n] <= seenUsed[n] + committed[n]
    BY DEF TypeOK, TallyCoversCache
  <2> QED
    BY <1>2, <1>4, <2>1
<1>8. RoomKept'
  <2> SUFFICES ASSUME NEW i \in DOMAIN plan'
               PROVE  /\ used'[plan'[i].to] + Mem[plan'[i].guest] + plan'[i].rest
                           <= Cap(plan'[i].to)
                      /\ \A k \in DOMAIN plan' : i < k /\ plan'[i].to = plan'[k].to =>
                           plan'[k].rest + Mem[plan'[k].guest] <= plan'[i].rest
    BY DEF RoomKept, Cap
  <2> DEFINE q == plan[i + 1]
  <2>1. plan'[i] = q /\ q \in Placement /\ i + 1 \in DOMAIN plan /\ phase \in {"moving", "failing"}
    BY <1>1 DEF Move
  <2>2. /\ q.to \in Nodes /\ q.rest \in Nat /\ Mem[q.guest] \in Nat /\ used[q.to] \in Int
        /\ used[q.to] + Mem[q.guest] + q.rest <= Cap(q.to) /\ Cap(q.to) \in Int
        /\ p.to = q.to => q.rest + Mem[q.guest] <= p.rest
    BY <1>1, <2>1, CapTyped DEF Placement, RoomKept, TypeOK
  <2>3. used'[q.to] + Mem[q.guest] + q.rest <= Cap(q.to)
    BY <1>2, <1>4, <2>2
  <2>4. ASSUME NEW k \in DOMAIN plan', i < k, plan'[i].to = plan'[k].to
        PROVE  plan'[k].rest + Mem[plan'[k].guest] <= plan'[i].rest
    <3>1. plan'[k] = plan[k + 1] /\ k + 1 \in DOMAIN plan /\ i + 1 < k + 1
      BY <1>1, <2>4
    <3> QED
      BY <2>1, <2>4, <3>1 DEF RoomKept
  <2> QED
    BY <2>1, <2>3, <2>4
<1>9. phase \in {"moving", "failing"} /\ phase' = phase /\ host' = host
  BY DEF Move
<1> QED
  BY <1>5, <1>6, <1>7, <1>8, <1>9 DEF FreeIsFree

\* A migration that fails leaves its room unused.
LEMMA MoveFailsKeeps ==
  ASSUME Headroom, MoveFails
  PROVE  Headroom'
<1> USE DEF Headroom
<1>1. /\ plan \in Seq(Placement) /\ plan' = Tail(plan) /\ plan' \in Seq(Placement)
      /\ \A i \in DOMAIN plan' : i + 1 \in DOMAIN plan /\ plan'[i] = plan[i + 1] /\ i \in Nat
  BY TailOf DEF MoveFails, TypeOK
<1>2. /\ phase \in {"moving", "failing"} /\ phase' = "failing" /\ used' = used
  BY DEF MoveFails, cluster
<1>3. RoomKept'
  <2> SUFFICES ASSUME NEW i \in DOMAIN plan'
               PROVE  /\ used[plan'[i].to] + Mem[plan'[i].guest] + plan'[i].rest
                           <= Cap(plan'[i].to)
                      /\ \A k \in DOMAIN plan' : i < k /\ plan'[i].to = plan'[k].to =>
                           plan'[k].rest + Mem[plan'[k].guest] <= plan'[i].rest
    BY <1>2 DEF RoomKept, Cap
  <2>1. \A k \in DOMAIN plan' : i < k => i + 1 < k + 1
    BY <1>1
  <2> QED
    BY <1>1, <1>2, <2>1 DEF RoomKept
<1>4. TypeOK'
  BY <1>1 DEF MoveFails, TypeOK, cluster, cache, planner
<1> QED
  BY <1>2, <1>3, <1>4 DEF MoveFails, TallyCoversCache, FreeIsFree, Cap,
                          cluster, cache

\* Steps that leave the memory of the nodes and the plan alone.
LEMMA QuietKeeps ==
  ASSUME Headroom, Planned \/ Moved \/ Poll \/ \E g \in Guests : Shortfall(g)
  PROVE  Headroom'
<1> USE HeadroomAssumption DEF Headroom
<1>1. CASE Planned
  BY <1>1 DEF Planned, TypeOK, TallyCoversCache, RoomKept, FreeIsFree, Cap,
              cluster, cache, planner
<1>2. CASE Moved
  BY <1>2 DEF Moved, TypeOK, TallyCoversCache, RoomKept, FreeIsFree, Cap,
              cluster, cache, planner
<1>3. CASE Poll
  <2>1. TypeOK'
    BY <1>3 DEF Poll, TypeOK, cluster, planner
  <2>2. TallyCoversCache'
    BY <1>3, <2>1 DEF Poll, TallyCoversCache, TypeOK, cluster
  <2> QED
    BY <1>3, <2>1, <2>2 DEF Poll, RoomKept, FreeIsFree, Cap, cluster, planner
<1>4. CASE \E g \in Guests : Shortfall(g)
  <2>1. /\ plan' = <<>> /\ phase' = "loop"
        /\ UNCHANGED <<opt, cluster, cache, committed, left, host, planner, evac>>
    BY <1>4 DEF Shortfall
  <2>2. plan' \in Seq(Placement)
    BY <2>1
  <2> QED
    BY <2>1, <2>2 DEF TypeOK, TallyCoversCache, RoomKept, FreeIsFree, Cap,
                      cluster, cache, planner
<1> QED
  BY <1>1, <1>2, <1>3, <1>4

\* A guest that is taken home leaves everything the planner uses alone.
LEMMA ReturnKeeps ==
  ASSUME Headroom, Return \/ ReturnFails \/ Returned
  PROVE  Headroom'
<1> USE HeadroomAssumption DEF Headroom
<1>1. /\ phase = "restoring" /\ opt.back /\ phase' \in {"restoring", "loop"}
      /\ UNCHANGED <<opt, seenWhere, seenUsed, committed, left, host, free, todo, allowed, plan>>
  BY DEF Return, ReturnFails, Returned, cluster, cache, planner
<1>2. evac' \in Seq(Placement)
  <2>1. evac' = evac \/ (evac # <<>> /\ evac' = Tail(evac))
    BY DEF Return, ReturnFails, Returned
  <2>2. evac \in Seq(Placement)
    BY DEF TypeOK
  <2>3. evac # <<>> => Tail(evac) \in Seq(Placement)
    BY <2>2, TailOf
  <2> QED
    BY <2>1, <2>2, <2>3, Zenon
<1>3. where' \in [Guests -> Nodes] /\ used' \in [Nodes -> Int]
  <2>1. CASE Return
    <3> DEFINE p == Head(evac)
    <3>1. evac # <<>> /\ evac \in Seq(Placement) /\ Migrate(p.guest, p.to, host)
      BY <2>1 DEF Return, TypeOK
    <3>2. p \in Placement
      BY <3>1, TailOf
    <3>3. Mem[p.guest] \in Int /\ p.guest \in Guests /\ host \in Nodes
      BY <1>1, <3>2, PlacementTyped
    <3> HIDE DEF p
    <3>4. where' = [where EXCEPT ![p.guest] = host]
      BY <3>1 DEF Migrate
    <3>5. where' \in [Guests -> Nodes]
      BY <3>3, <3>4 DEF TypeOK
    <3>6. \A n \in Nodes : used[n] \in Int /\ used[n] - Mem[p.guest] \in Int /\ used[n] + Mem[p.guest] \in Int
      <4>1. ASSUME NEW n \in Nodes
            PROVE  used[n] \in Int
        BY <4>1 DEF TypeOK
      <4>2. \A x, y \in Int : x - y \in Int /\ x + y \in Int
        OBVIOUS
      <4> QED
        BY <3>3, <4>1, <4>2, Zenon
    <3>7. used' \in [Nodes -> Int]
      BY <3>1, <3>6 DEF Migrate
    <3> QED
      BY <3>5, <3>7
  <2>2. CASE ReturnFails \/ Returned
    BY <2>2 DEF ReturnFails, Returned, cluster, TypeOK
  <2> QED
    BY <2>1, <2>2
<1>4. TypeOK'
  BY <1>1, <1>2, <1>3 DEF TypeOK
<1> QED
  BY <1>1, <1>4 DEF TallyCoversCache, RoomKept, FreeIsFree

-----------------------------------------------------------------------------
(* The way back.                                                           *)

LEMMA InitHome == CarefulSweeps /\ Init => Away /\ HomeRoom
<1> SUFFICES ASSUME CarefulSweeps, Init PROVE Away /\ HomeRoom
  OBVIOUS
<1>1. phase = "loop" /\ used = Used0 /\ opt \in Options
  BY DEF Init
<1>2. QED
  BY <1>1 DEF Away, HomeRoom, CarefulSweeps, Cap

\* The planner places on other nodes, and the host as it is has its reserve.
LEMMA BeginHome ==
  ASSUME Headroom, Away, HomeRoom, NEW h \in Nodes, NEW targets \in SUBSET (Nodes \ {h}),
         BeginHost(h, targets)
  PROVE  Away' /\ HomeRoom'
<1> USE HeadroomAssumption
<1>1. /\ host' = h /\ plan' = <<>> /\ evac' = <<>> /\ UNCHANGED <<opt, where, used>>
      /\ \A g \in Guests : allowed'[g] \subseteq targets
  BY DEF BeginHost, cluster
<1>2. Away'
  BY <1>1 DEF Away
<1>3. ASSUME opt.back PROVE \E l : Climb(l)'
  <2>0. PICK l : l = [i \in 0..0 |-> used[h]]
    OBVIOUS
  <2>1. Len(evac') = 0 /\ used[h] \in Int /\ used[h] <= Cap(h)
    BY <1>1, <1>3 DEF HomeRoom, Headroom, TypeOK
  <2>2. Climb(l)'
    BY <1>1, <2>0, <2>1 DEF Climb, Cap
  <2> QED
    BY <2>2
<1> QED
  BY <1>1, <1>2, <1>3 DEF HomeRoom, Cap

LEMMA PlaceHome ==
  ASSUME Headroom, Away, HomeRoom, NEW g \in Guests, NEW t \in Nodes, Place(g, t)
  PROVE  Away' /\ HomeRoom'
<1> DEFINE p == [guest |-> g, to |-> t, rest |-> free[t] - Mem[g]]
<1>1. /\ phase = "placing" /\ UNCHANGED <<opt, used, host, phase, allowed, evac>>
      /\ t \in allowed[g] /\ plan' = Append(plan, p)
  BY DEF Place, Fits, cluster
<1>2. \A i \in DOMAIN plan' : plan'[i] = p \/ (i \in DOMAIN plan /\ plan'[i] = plan[i])
  <2>1. p \in Placement /\ plan \in Seq(Placement)
    <3>1. TypeOK /\ free[t] >= Mem[g]
      BY DEF Headroom, Place, Fits
    <3>2. Mem[g] \in Nat /\ free[t] \in Nat
      BY <3>1, MemoryTyped, HeadroomAssumption
    <3>3. free[t] - Mem[g] \in Nat
      BY <3>1, <3>2
    <3> QED
      BY <3>1, <3>3 DEF Placement, TypeOK
  <2> QED
    BY <1>1, <2>1, AppendOf
<1>3. Away'
  BY <1>1, <1>2 DEF Away
<1> QED
  BY <1>1, <1>3 DEF HomeRoom, Climb, Cap

\* A guest that leaves will come back after those that left before it.
LEMMA MoveHome ==
  ASSUME Headroom, Away, HomeRoom, Move
  PROVE  Away' /\ HomeRoom'
<1> USE HeadroomAssumption
<1> DEFINE p == plan[1]
           m == Mem[p.guest]
<1>1. /\ plan \in Seq(Placement) /\ plan # <<>> /\ p \in Placement /\ 1 \in DOMAIN plan
      /\ plan' = Tail(plan) /\ Head(plan) = p
      /\ \A i \in DOMAIN plan' : i + 1 \in DOMAIN plan /\ plan'[i] = plan[i + 1]
  BY TailOf DEF Move, Headroom, TypeOK
<1>2. /\ UNCHANGED <<opt, host, phase, allowed>> /\ phase \in {"moving", "failing"}
      /\ evac' = Append(evac, p) /\ Migrate(p.guest, host, p.to)
      /\ host \in Nodes /\ p.to \in Nodes /\ p.to # host /\ m \in Nat
  BY <1>1, PlacementTyped DEF Move, planner, Away, Headroom
<1>3. Away'
  BY <1>1, <1>2 DEF Away
<1>4. used \in [Nodes -> Int] /\ used'[host] = used[host] - m /\ used[host] \in Int
  BY <1>2 DEF Migrate, Headroom, TypeOK
<1>5. ASSUME opt.back, NEW n \in Nodes PROVE used'[n] <= Cap(n)
  <2>1. used[n] <= Cap(n) /\ used[n] \in Int /\ used'[n] \in Int /\ Cap(n) \in Int
    BY <1>5, MoveKeeps, CapTyped DEF HomeRoom, Headroom, TypeOK
  <2> QED
    BY <2>1, MoveKeeps
<1>6. ASSUME opt.back, phase = "moving" PROVE \E l : Climb(l)'
  <2>1. PICK l : Climb(l)
    BY <1>6 DEF HomeRoom
  <2> DEFINE k == Len(evac)
  <2>2. /\ k \in Nat /\ Len(evac') = k + 1 /\ evac'[k + 1] = p
        /\ \A i \in 1..k : evac'[i] = evac[i] /\ Mem[evac[i].guest] \in Nat
    <3>1. evac \in Seq(Placement)
      BY DEF Headroom, TypeOK
    <3>2. \A i \in 1..k : evac[i] \in Placement
      BY <3>1
    <3> QED
      BY <1>1, <1>2, <3>1, <3>2, PlacementTyped
  <2>3. Cap(host) \in Int /\ \A i \in 0..k : l[i] \in Int /\ l[i] <= Cap(host)
    BY <1>2, <2>1, CapTyped DEF Climb
  <2>4. l[0] = used[host] /\ \A i \in 1..k : l[i - 1] + Mem[evac[i].guest] <= l[i]
    BY <2>1 DEF Climb
  <2> HIDE DEF m, k
  <2>5. PICK d : d = [i \in 0..(k + 1) |-> IF i = k + 1 THEN l[k] ELSE l[i] - m]
    OBVIOUS
  <2>6. d \in [0..(k + 1) -> Int] /\ d[0] = used'[host]
    <3>1. ASSUME NEW i \in 0..(k + 1) PROVE (IF i = k + 1 THEN l[k] ELSE l[i] - m) \in Int
      <4>1. i = k + 1 \/ i \in 0..k
        BY <2>2
      <4>2. l[k] \in Int /\ (i \in 0..k => l[i] \in Int) /\ m \in Int
        BY <1>2, <2>2, <2>3
      <4> QED
        BY <4>1, <4>2
    <3>2. d[0] = l[0] - m
      BY <2>2, <2>5
    <3> QED
      BY <1>4, <2>4, <2>5, <3>1, <3>2
  <2>7. ASSUME NEW i \in 0..(k + 1) PROVE d[i] <= Cap(host)
    <3>1. CASE i = k + 1
      BY <2>2, <2>3, <2>5, <3>1
    <3>2. CASE i # k + 1
      <4>1. i \in 0..k /\ d[i] = l[i] - m
        BY <2>2, <2>5, <3>2
      <4> QED
        BY <1>2, <2>3, <4>1
    <3> QED
      BY <3>1, <3>2
  <2>8. ASSUME NEW i \in 1..(k + 1) PROVE d[i - 1] + Mem[evac'[i].guest] <= d[i]
    <3>1. CASE i = k + 1
      <4>1. d[i] = l[k] /\ d[i - 1] = l[k] - m /\ Mem[evac'[i].guest] = m
        BY <2>2, <2>5, <3>1 DEF m
      <4> QED
        BY <1>2, <2>2, <2>3, <4>1
    <3>2. CASE i # k + 1
      <4>1. i \in 1..k /\ i - 1 \in 0..k /\ i \in 0..k /\ evac'[i] = evac[i]
        BY <2>2, <3>2
      <4>2. l[i - 1] + Mem[evac[i].guest] <= l[i] /\ l[i - 1] \in Int /\ l[i] \in Int
        BY <2>4, <2>3, <4>1
      <4>3. d[i] = l[i] - m /\ d[i - 1] = l[i - 1] - m
        BY <2>2, <2>5, <4>1
      <4>4. Mem[evac'[i].guest] = Mem[evac[i].guest] /\ Mem[evac[i].guest] \in Int /\ m \in Int
        BY <1>2, <2>2, <4>1
      <4> QED
        BY <4>2, <4>3, <4>4
    <3> QED
      BY <3>1, <3>2
  <2>9. Climb(d)'
    BY <1>2, <2>2, <2>6, <2>7, <2>8 DEF Climb, Cap
  <2> QED
    BY <2>9
<1> QED
  BY <1>2, <1>3, <1>5, <1>6 DEF HomeRoom, Cap

\* The first that left comes home first, or stays away and leaves more room.
LEMMA ReturnHome ==
  ASSUME Headroom, Away, HomeRoom, Return \/ ReturnFails
  PROVE  /\ Away' /\ HomeRoom'
         /\ \A n \in Nodes : used'[n] > used[n] => used'[n] <= Cap(n)
<1> USE HeadroomAssumption
<1> DEFINE p == evac[1]
           m == Mem[p.guest]
           k == Len(evac)
<1>1. /\ evac \in Seq(Placement) /\ evac # <<>> /\ p \in Placement /\ Head(evac) = p
      /\ k \in Nat \ {0} /\ evac' = Tail(evac) /\ Len(evac') = k - 1
      /\ \A i \in 1..(k - 1) : evac'[i] = evac[i + 1]
      /\ \A i \in 1..k : evac[i] \in Placement
  <2>1. evac \in Seq(Placement) /\ evac # <<>> /\ evac' = Tail(evac)
    BY DEF Return, ReturnFails, Headroom, TypeOK
  <2>2. k \in Nat \ {0} /\ Len(Tail(evac)) = k - 1 /\ \A i \in 1..(k - 1) : Tail(evac)[i] = evac[i + 1]
    BY <2>1
  <2>3. \A i \in 1..k : evac[i] \in Placement
    BY <2>1
  <2> QED
    BY <2>1, <2>2, <2>3, TailOf
<1>2. /\ UNCHANGED <<opt, host, phase, allowed, plan>> /\ phase = "restoring" /\ opt.back
      /\ host \in Nodes /\ p.to \in Nodes /\ m \in Nat
  BY <1>1, PlacementTyped DEF Return, ReturnFails, planner, Headroom
<1>3. Away'
  BY <1>2 DEF Away
<1>4. PICK l : Climb(l)
  BY <1>2 DEF HomeRoom
<1>5. /\ Cap(host) \in Int /\ l[0] = used[host]
      /\ \A i \in 0..k : l[i] \in Int /\ l[i] <= Cap(host)
      /\ \A i \in 1..k : l[i - 1] + Mem[evac[i].guest] <= l[i]
      /\ \A i \in 1..k : Mem[evac[i].guest] \in Nat
  BY <1>1, <1>2, <1>4, CapTyped, PlacementTyped DEF Climb
<1> HIDE DEF m, k
<1>6. l[0] + m <= l[1] /\ l[0] \in Int /\ l[1] \in Int /\ l[1] <= Cap(host)
  BY <1>1, <1>5 DEF m
<1>7. /\ used'[host] \in {used[host], used[host] + m}
      /\ \A n \in Nodes \ {host} : used'[n] \in {used[n], used[n] - m}
  <2>1. CASE Return
    <3>1. Migrate(p.guest, p.to, host)
      BY <1>1, <2>1 DEF Return
    <3> HIDE DEF p
    <3>2. \A n \in Nodes : used'[n] = CASE n = p.to /\ n # host -> used[n] - m
                                        [] n = host /\ n # p.to -> used[n] + m
                                        [] OTHER -> used[n]
      BY <3>1 DEF Migrate, m
    <3> QED
      BY <1>2, <3>2
  <2>2. CASE ReturnFails
    BY <2>2 DEF ReturnFails, cluster
  <2> QED
    BY <2>1, <2>2
<1>8. ASSUME NEW n \in Nodes PROVE used'[n] <= Cap(n)
  <2>1. used[n] <= Cap(n) /\ used[n] \in Int /\ Cap(n) \in Int
    BY <1>2, CapTyped DEF HomeRoom, Headroom, TypeOK
  <2>2. CASE n = host
    BY <1>2, <1>5, <1>6, <1>7, <2>1, <2>2
  <2>3. CASE n # host
    BY <1>2, <1>7, <2>1, <2>3
  <2> QED
    BY <2>2, <2>3
\* The levels above the first, less what did not come.
<1>9. PICK d : d = [i \in 0..(k - 1) |-> IF i = 0 THEN used'[host] ELSE l[i + 1]]
  OBVIOUS
<1>10. Climb(d)'
  <2>1. used'[host] \in Int /\ used'[host] <= l[1] /\ used'[host] <= Cap(host)
    BY <1>2, <1>5, <1>6, <1>7
  <2>2. d \in [0..(k - 1) -> Int] /\ d[0] = used'[host]
    BY <1>1, <1>5, <1>9, <2>1
  <2>3. \A i \in 0..(k - 1) : d[i] <= Cap(host)
    BY <1>1, <1>5, <1>9, <2>1
  <2>4. ASSUME NEW i \in 1..(k - 1) PROVE d[i - 1] + Mem[evac'[i].guest] <= d[i]
    <3>1. /\ i + 1 \in 1..k /\ i \in 1..k /\ i \in Nat /\ i # 0 /\ evac'[i] = evac[i + 1]
          /\ (i + 1) - 1 = i
      BY <1>1
    <3>2. l[i] + Mem[evac'[i].guest] <= l[i + 1]
      BY <1>5, <3>1
    <3>3. d[i - 1] \in Int /\ d[i - 1] <= l[i] /\ d[i] = l[i + 1]
      <4>1. CASE i = 1
        BY <1>1, <1>6, <1>9, <2>1, <2>2, <4>1
      <4>2. CASE i # 1
        BY <1>1, <1>5, <1>9, <3>1, <4>2
      <4> QED
        BY <4>1, <4>2
    <3>4. l[i] \in Int /\ l[i + 1] \in Int /\ Mem[evac'[i].guest] \in Nat
      <4>1. i \in 0..k /\ i + 1 \in 0..k
        BY <1>1, <3>1
      <4> QED
        BY <1>5, <3>1, <4>1
    <3> QED
      BY <3>2, <3>3, <3>4
  <2> QED
    BY <1>1, <1>2, <2>2, <2>3, <2>4 DEF Climb, Cap
<1> QED
  BY <1>2, <1>3, <1>8, <1>10 DEF HomeRoom, Cap

LEMMA QuietHome ==
  ASSUME Headroom, Away, HomeRoom,
         \/ Planned \/ MoveFails \/ Moved \/ Returned \/ Poll
         \/ \E g \in Guests : Shortfall(g)
  PROVE  Away' /\ HomeRoom'
<1>1. /\ UNCHANGED <<opt, used, host, allowed, evac>>
      /\ phase = "loop" => phase' = "loop"
      /\ plan' \in {plan, <<>>} \/ (plan # <<>> /\ plan' = Tail(plan))
      /\ phase' \in {"placing", "moving", "restoring"} => phase \in {"placing", "moving", "restoring"}
  BY DEF Planned, MoveFails, Moved, Returned, Poll, Shortfall, cluster, planner
<1>2. \A i \in DOMAIN plan' : \E k \in DOMAIN plan : plan'[i] = plan[k]
  <2>1. plan \in Seq(Placement)
    BY DEF Headroom, TypeOK
  <2>2. CASE plan # <<>> /\ plan' = Tail(plan)
    BY <2>1, <2>2, TailOf
  <2>3. CASE plan' \in {plan, <<>>}
    BY <2>3
  <2> QED
    BY <1>1, <2>2, <2>3
<1>3. Away'
  BY <1>1, <1>2 DEF Away
<1> QED
  BY <1>1, <1>3 DEF HomeRoom, Climb, Cap

-----------------------------------------------------------------------------
\* The invariant is inductive, and a node that takes on memory keeps its reserve.
LEMMA HeadroomStep ==
  ASSUME CarefulSweeps
  PROVE  Headroom /\ Away /\ HomeRoom /\ [Next]_vars
           => /\ (Headroom /\ Away /\ HomeRoom)'
              /\ [\A n \in Nodes : used'[n] > used[n] => used'[n] <= Cap(n)]_used
<1> SUFFICES ASSUME Headroom, Away, HomeRoom, [Next]_vars
             PROVE  /\ Headroom' /\ Away' /\ HomeRoom'
                    /\ used' = used \/ \A n \in Nodes : used'[n] > used[n] => used'[n] <= Cap(n)
  OBVIOUS
<1>1. opt.back => opt.fresh
  BY DEF Headroom, TypeOK, CarefulSweeps
<1>2. CASE UNCHANGED vars
  BY <1>2 DEF vars, cluster, cache, planner, Headroom, TypeOK, TallyCoversCache, RoomKept,
              FreeIsFree, Cap, Away, HomeRoom, Climb
<1>3. CASE \E h \in Nodes : \E targets \in SUBSET (Nodes \ {h}) \ {{}} : BeginHost(h, targets)
  <2>1. PICK h \in Nodes : \E targets \in SUBSET (Nodes \ {h}) : BeginHost(h, targets)
    BY <1>3
  <2>2. PICK targets \in SUBSET (Nodes \ {h}) : BeginHost(h, targets)
    BY <2>1
  <2> QED
    BY <1>1, <2>2, BeginKeeps, BeginHome DEF BeginHost, cluster
<1>4. CASE \E g \in Guests : \E t \in Nodes : Place(g, t)
  BY <1>4, PlaceKeeps, PlaceHome DEF Place, cluster
<1>5. CASE Move
  BY <1>5, MoveKeeps, MoveHome
<1>6. CASE MoveFails
  BY <1>6, MoveFailsKeeps, QuietHome DEF MoveFails, cluster
<1>7. CASE Planned \/ Moved \/ Poll \/ \E g \in Guests : Shortfall(g)
  BY <1>7, QuietKeeps, QuietHome DEF Planned, Moved, Poll, Shortfall, cluster
<1>8. CASE Return \/ ReturnFails
  BY <1>8, ReturnKeeps, ReturnHome
<1>9. CASE Returned
  BY <1>9, ReturnKeeps, QuietHome DEF Returned, cluster
<1> QED
  BY <1>2, <1>3, <1>4, <1>5, <1>6, <1>7, <1>8, <1>9 DEF Next

\* A sweep that does not migrate back never takes a node into its reserve, however
\* old the poll cache is when a host's evacuation is planned; nor does one that does
\* migrate back, if the cache is polled in between and no node was in its reserve
\* before (_plan_evacuation over _target_free_budget and committed_mem, _restore_node).
THEOREM HeadroomKept ==
  ASSUME CarefulSweeps
  PROVE  Spec => NeverOvercommit
BY InitHeadroom, InitHome, HeadroomStep, PTL DEF Spec, NeverOvercommit

\* What the poll cache has not seen yet is in the tally, for every node and every
\* age of the cache, in a sweep that does not migrate back (committed_mem).
THEOREM CacheAndTally ==
  ASSUME CarefulSweeps
  PROVE  Spec => []TallyCoversCache
<1>1. Headroom => TallyCoversCache
  BY DEF Headroom
<1> QED
  BY <1>1, InitHeadroom, InitHome, HeadroomStep, PTL DEF Spec

\* A placement that is still to be made has its room waiting for it, whatever was
\* migrated or failed since it was planned (_evacuate_node).
THEOREM PlanHasRoom ==
  ASSUME CarefulSweeps
  PROVE  Spec => []RoomKept
<1>1. Headroom => RoomKept
  BY DEF Headroom
<1> QED
  BY <1>1, InitHeadroom, InitHome, HeadroomStep, PTL DEF Spec

\* Every variable has its type, in particular no budget is negative.
THEOREM PlanTypes ==
  ASSUME CarefulSweeps
  PROVE  Spec => []TypeOK
<1>1. Headroom => TypeOK
  BY DEF Headroom
<1> QED
  BY <1>1, InitHeadroom, InitHome, HeadroomStep, PTL DEF Spec
=============================================================================
