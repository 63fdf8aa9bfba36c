--------------------------- MODULE EvacuationPlan ---------------------------
(***************************************************************************)
(* Memory headroom over one upgrade sweep (server/host_upgrade.py:         *)
(* _target_free_budget, _plan_evacuation, _evacuate_node, _restore_node    *)
(* and the tally committed_mem of _run_job).                               *)
(*                                                                         *)
(* Each host's guests are placed on the other nodes by a planner that      *)
(* reads memory from the poll cache, which lags behind the cluster, and    *)
(* subtracts a running tally of what this job has moved where.  The        *)
(* planner is synchronous code over its own locals; here each turn of its  *)
(* loop is a step, which no other step can tell apart.                     *)
(*                                                                         *)
(* HostUpgrade lets the plan be any placement on the targets; this module  *)
(* says which one, and what it does to the memory of the nodes.            *)
(*                                                                         *)
(* The guests are those the job moves itself, and theirs is the only       *)
(* memory that changes: guests the HA manager moves, and migrations that   *)
(* finish after they were given up on (HostUpgrade has both), are in       *)
(* neither the tally nor, until the next poll, the cache.                  *)
(***************************************************************************)
EXTENDS Integers, Sequences

CONSTANTS
  Nodes, Guests,
  Mem,       \* [Guests -> Nat]: configured memory, 512 MiB at least
  Home,      \* [Guests -> Nodes]
  Size,      \* [Nodes -> Nat]: a node's memory
  Reserve,   \* [Nodes -> Nat]: what is kept free of it
  Used0,     \* [Nodes -> Nat]: memory in use when the sweep starts
  Legal,     \* [Guests -> SUBSET Nodes]: HA rules and storage
  Options,   \* the sweeps: back is migrate_back; fresh says that the cache is
             \* polled between the last migration and the next plan
  NoNode

ASSUME HeadroomAssumption ==
  /\ Mem \in [Guests -> Nat \ {0}]
  /\ Home \in [Guests -> Nodes]
  /\ Size \in [Nodes -> Nat] /\ Reserve \in [Nodes -> Nat] /\ Used0 \in [Nodes -> Nat]
  /\ Legal \in [Guests -> SUBSET Nodes]
  /\ Options \subseteq [back : BOOLEAN, fresh : BOOLEAN]
  /\ NoNode \notin Nodes

\* What a node may use before its reserve is touched.
Cap(n) == Size[n] - Reserve[n]

VARIABLES
  opt,        \* the sweep's options
  where,      \* where each guest runs
  used,       \* memory in use on each node
  seenWhere,  \* the poll cache's copy of where
  seenUsed,   \* and of used
  committed,  \* committed_mem
  left,       \* hosts the sweep has not reached
  host,       \* the host being upgraded
  phase,      \* "loop", "placing", "moving", "failing" (a migration
              \* has failed, the others go on) or "restoring"
  free,       \* the planner's free
  todo,       \* guests the planner has not placed
  allowed,    \* the planner's allowed
  plan,       \* placements made and not yet carried out, in order
  evac        \* placements that were carried out, in order

cluster == <<where, used>>
cache   == <<seenWhere, seenUsed>>
planner == <<free, todo, allowed>>
vars    == <<opt, cluster, cache, committed, left, host, phase, planner, plan, evac>>

\* A guest's target, and the planner's free memory there after placing it.
Placement == [guest : Guests, to : Nodes, rest : Nat]

NoMemory == [n \in Nodes |-> 0]

Init ==
  /\ opt \in Options
  /\ where = Home /\ used = Used0
  /\ seenWhere = where /\ seenUsed = used
  /\ committed = NoMemory
  /\ left = Nodes /\ host = NoNode /\ phase = "loop"
  /\ free = NoMemory /\ todo = {} /\ allowed = [g \in Guests |-> {}]
  /\ plan = <<>> /\ evac = <<>>

-----------------------------------------------------------------------------
\* Variant: the tally of earlier hosts is forgotten.
Budget_Mutant(t) ==
  LET room == Size[t] - seenUsed[t] - Reserve[t] IN IF room > 0 THEN room ELSE 0

\* _target_free_budget: what the cache says is free, less the reserve and less
\* what earlier hosts of this job sent there.
Budget(t) ==
  LET room == Size[t] - seenUsed[t] - Reserve[t] - committed[t] IN IF room > 0 THEN room ELSE 0

\* _evacuate_node begins, for some pool of targets (auto, minus the excluded
\* nodes, or the one of manual mode).  A legality check that cannot be made
\* allows every target.
BeginHost(h, targets) ==
  /\ phase = "loop" /\ h \in left
  /\ opt.fresh => seenWhere = where /\ seenUsed = used
  /\ LET leaving == {g \in Guests : seenWhere[g] = h} IN
       /\ todo' = leaving
       /\ \E unchecked \in SUBSET leaving :
            allowed' = [g \in Guests |-> CASE g \in unchecked -> targets
                                           [] g \in leaving \ unchecked -> targets \cap Legal[g]
                                           [] OTHER -> {}]
  /\ free' = [n \in Nodes |-> IF n \in targets THEN Budget(n) ELSE 0]
  /\ left' = left \ {h} /\ host' = h /\ phase' = "placing"
  /\ plan' = <<>> /\ evac' = <<>>
  /\ UNCHANGED <<opt, cluster, cache, committed>>

Fits(g) == {t \in allowed[g] : free[t] >= Mem[g]}
Biggest(g) == g \in todo /\ \A other \in todo : Mem[other] <= Mem[g]

\* Variant: a placement is not taken off the target's free memory.
Place_Mutant(g, t) ==
  /\ phase = "placing" /\ Biggest(g) /\ t \in Fits(g)
  /\ todo' = todo \ {g}
  /\ plan' = Append(plan, [guest |-> g, to |-> t, rest |-> free[t]])
  /\ UNCHANGED <<opt, cluster, cache, committed, left, host, phase, free, allowed, evac>>

\* One turn of _plan_evacuation: the biggest guest goes to the roomiest target
\* that is legal for it and has room.
Place(g, t) ==
  /\ phase = "placing" /\ Biggest(g)
  /\ t \in Fits(g) /\ \A other \in Fits(g) : free[other] <= free[t]
  /\ free' = [free EXCEPT ![t] = @ - Mem[g]]
  /\ todo' = todo \ {g}
  /\ plan' = Append(plan, [guest |-> g, to |-> t, rest |-> free[t] - Mem[g]])
  /\ UNCHANGED <<opt, cluster, cache, committed, left, host, phase, allowed, evac>>

\* The host fails before anything is migrated.
Shortfall(g) ==
  /\ phase = "placing" /\ Biggest(g) /\ Fits(g) = {}
  /\ phase' = "loop" /\ plan' = <<>>
  /\ UNCHANGED <<opt, cluster, cache, committed, left, host, planner, evac>>

Planned ==
  /\ phase = "placing" /\ todo = {}
  /\ phase' = "moving"
  /\ UNCHANGED <<opt, cluster, cache, committed, left, host, planner, plan, evac>>

\* Guest g moves between nodes a and b, with its memory.
Migrate(g, a, b) ==
  /\ where' = [where EXCEPT ![g] = b]
  /\ used' = [n \in Nodes |-> CASE n = a /\ n # b -> used[n] - Mem[g]
                               [] n = b /\ n # a -> used[n] + Mem[g]
                               [] OTHER -> used[n]]

\* Variant: the target's tally is set rather than added to.
Tally_Mutant(t, m) == [committed EXCEPT ![t] = m]

Tally(t, m) == [committed EXCEPT ![t] = @ + m]

\* PVE runs the migration only where the guest is and only to a legal node.
Move ==
  /\ phase \in {"moving", "failing"} /\ plan # <<>>
  /\ LET p == Head(plan) IN
       /\ where[p.guest] = host /\ p.to \in Legal[p.guest]
       /\ Migrate(p.guest, host, p.to)
       /\ committed' = Tally(p.to, Mem[p.guest])
       /\ evac' = Append(evac, p)
  /\ plan' = Tail(plan)
  /\ UNCHANGED <<opt, cache, left, host, phase, planner>>

MoveFails ==
  /\ phase \in {"moving", "failing"} /\ plan # <<>>
  /\ plan' = Tail(plan)
  /\ phase' = "failing"
  /\ UNCHANGED <<opt, cluster, cache, committed, left, host, planner, evac>>

\* The guests that left are taken home after the reboot, or stay where they are
\* when the job does not migrate back, or one did not leave, or the host failed
\* later on.
Moved ==
  /\ phase \in {"moving", "failing"} /\ plan = <<>>
  /\ phase' \in (IF opt.back /\ phase = "moving" THEN {"restoring", "loop"} ELSE {"loop"})
  /\ UNCHANGED <<opt, cluster, cache, committed, left, host, planner, plan, evac>>

\* _restore_node asks nobody about memory, and leaves the tally alone.
Return ==
  /\ phase = "restoring" /\ evac # <<>>
  /\ LET p == Head(evac) IN where[p.guest] = p.to /\ Migrate(p.guest, p.to, host)
  /\ evac' = Tail(evac)
  /\ UNCHANGED <<opt, cache, committed, left, host, phase, planner, plan>>

ReturnFails ==
  /\ phase = "restoring" /\ evac # <<>>
  /\ evac' = Tail(evac)
  /\ UNCHANGED <<opt, cluster, cache, committed, left, host, phase, planner, plan>>

Returned ==
  /\ phase = "restoring" /\ evac = <<>>
  /\ phase' = "loop"
  /\ UNCHANGED <<opt, cluster, cache, committed, left, host, planner, plan, evac>>

\* The poller refreshes the cache, whenever it likes.
Poll ==
  /\ seenWhere' = where /\ seenUsed' = used
  /\ UNCHANGED <<opt, cluster, committed, left, host, phase, planner, plan, evac>>

Next ==
  \/ \E h \in Nodes : \E targets \in SUBSET (Nodes \ {h}) \ {{}} : BeginHost(h, targets)
  \/ \E g \in Guests : Shortfall(g) \/ \E t \in Nodes : Place(g, t)
  \/ Planned \/ Move \/ MoveFails \/ Moved \/ Return \/ ReturnFails \/ Returned
  \/ Poll

Spec == Init /\ [][Next]_vars

-----------------------------------------------------------------------------

TypeOK ==
  /\ opt \in Options
  /\ where \in [Guests -> Nodes] /\ used \in [Nodes -> Int]
  /\ seenWhere \in [Guests -> Nodes] /\ seenUsed \in [Nodes -> Int]
  /\ committed \in [Nodes -> Nat]
  /\ left \subseteq Nodes /\ host \in Nodes \cup {NoNode}
  /\ phase \in {"loop", "placing", "moving", "failing", "restoring"}
  /\ free \in [Nodes -> Nat] /\ todo \subseteq Guests
  /\ allowed \in [Guests -> SUBSET Nodes]
  /\ plan \in Seq(Placement) /\ evac \in Seq(Placement)

\* "Never place a guest on a target that can't fit it, keep a per-node reserve
\* free": no migration of the sweep takes a node into its reserve, over all its
\* hosts and for every age of the cache (_plan_evacuation, committed_mem).
NeverOvercommit == [][\A n \in Nodes : used'[n] > used[n] => used'[n] <= Cap(n)]_used

\* Why it holds without migrating back: "the poll cache may not yet reflect
\* guests just migrated onto a target", and what it misses is in the tally.
TallyCoversCache ==
  ~opt.back => \A n \in Nodes : used[n] <= seenUsed[n] + committed[n]

\* Every placement that is still to be made has its room waiting for it, with
\* the later ones on the same target in what is left.
RoomKept ==
  phase \in {"placing", "moving", "failing"} =>
    \A i \in DOMAIN plan :
      /\ used[plan[i].to] + Mem[plan[i].guest] + plan[i].rest <= Cap(plan[i].to)
      /\ \A k \in DOMAIN plan : i < k /\ plan[i].to = plan[k].to =>
           plan[k].rest + Mem[plan[k].guest] <= plan[i].rest
=============================================================================
