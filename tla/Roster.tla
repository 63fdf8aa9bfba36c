------------------------------- MODULE Roster -------------------------------
(***************************************************************************)
(* The roster of clusters (server/cluster_manager.py, ClusterManager and   *)
(* the start and stop of Cluster; update_config_handler of                 *)
(* server/server.py) and the page's choice of one of them                  *)
(* (src/client/App.tsx).                                                   *)
(*                                                                         *)
(* A change of the configuration rewrites the file and replaces every      *)
(* cluster object: all are stopped one after the other, the dictionary is  *)
(* cleared, the file is loaded, the new objects are started.  Every stop   *)
(* and every start is awaited, and nothing keeps two changes apart.        *)
(***************************************************************************)
EXTENDS Naturals, FiniteSets

CONSTANTS
  Clusters,
  Esxi,       \* clusters that have an adapter instead of a Cluster
  Requests,   \* bound: changes of the configuration, each made once
  FirstLoad,  \* the load of the start-up
  NoLoad,
  All         \* the page shows all clusters

ASSUME RosterAssumption ==
  /\ Esxi \subseteq Clusters /\ All \notin Clusters
  /\ IsFiniteSet(Requests) /\ FirstLoad \notin Requests /\ NoLoad \notin Requests \cup {FirstLoad}

VARIABLES
  config,   \* what config.yaml enables, and its version
  dict,     \* clusters and adapters: whose load the object of a cluster is from
  poller,   \* per cluster and load: where the object is between start and stop
  built,    \* per load: the version it read
  change,   \* per request: its stage, the objects it has still to stop
  chosen,   \* the page's selectedCluster
  lasting   \* history: clusters that every version has enabled

rosterVars == <<config, dict, poller, built, change, chosen, lasting>>

Loads == Requests \cup {FirstLoad}

\* starting: start() awaits its first fetch; halted: stop() came before its end,
\* and found no poll task to cancel.
PollerStates == {"none", "starting", "halted", "polling", "over"}
ReloadStages == {"idle", "stopping", "adapters", "starting", "done"}

Known       == {c \in Clusters : dict[c] # NoLoad}
PveObjs     == {<<c, dict[c]>> : c \in Known \ Esxi}
AdapterObjs == {<<c, dict[c]>> : c \in Known \cap Esxi}

-----------------------------------------------------------------------------
(* A cluster's start() and stop().                                         *)

\* The first fetch is through, or has failed, which is the same: the poll loop is
\* created, and runs for as long as the object has not been stopped.
Started(c, l) ==
  /\ poller[c][l] \in {"starting", "halted"}
  /\ poller' = [poller EXCEPT ![c][l] = IF @ = "starting" THEN "polling" ELSE "over"]
  /\ UNCHANGED <<config, dict, built, change, chosen, lasting>>

AfterStop(state) == CASE state = "starting" -> "halted"
                      [] state = "polling"  -> "over"
                      [] OTHER              -> state

-----------------------------------------------------------------------------
(* update_config_handler and reload_all_clusters.                          *)

\* Variant: the dictionary is cleared before the objects are stopped.
Update_ClearsFirst(r) ==
  /\ change[r].stage = "idle"
  /\ \E enabled \in SUBSET Clusters :
       /\ config' = [ver |-> config.ver + 1, enabled |-> enabled]
       /\ lasting' = lasting \cap enabled
  /\ change' = [change EXCEPT ![r] = [stage |-> "stopping", todo |-> PveObjs]]
  /\ dict' = [c \in Clusters |-> IF c \in Esxi THEN dict[c] ELSE NoLoad]
  /\ UNCHANGED <<poller, built, chosen>>

\* update_config writes the file; the reload lists what it will stop.
Update(r) ==
  /\ change[r].stage = "idle"
  /\ \E enabled \in SUBSET Clusters :
       /\ config' = [ver |-> config.ver + 1, enabled |-> enabled]
       /\ lasting' = lasting \cap enabled
  /\ change' = [change EXCEPT ![r] = [stage |-> "stopping", todo |-> PveObjs]]
  /\ UNCHANGED <<dict, poller, built, chosen>>

\* The next of the listed objects.  It may have been stopped, and replaced, by
\* another request since.
StopOne(r, c, l) ==
  /\ change[r].stage \in {"stopping", "adapters"} /\ <<c, l>> \in change[r].todo
  /\ poller' = [poller EXCEPT ![c][l] = AfterStop(@)]
  /\ change' = [change EXCEPT ![r].todo = @ \ {<<c, l>>}]
  /\ UNCHANGED <<config, dict, built, chosen, lasting>>

\* self.clusters.clear(), and the list of the adapters.
Clear(r) ==
  /\ change[r].stage = "stopping" /\ change[r].todo = {} /\ AdapterObjs # {}
  /\ dict' = [c \in Clusters |-> IF c \in Esxi THEN dict[c] ELSE NoLoad]
  /\ change' = [change EXCEPT ![r] = [stage |-> "adapters", todo |-> AdapterObjs]]
  /\ UNCHANGED <<config, poller, built, chosen, lasting>>

\* Variant: what somebody else has loaded is not started.
Load_SkipsKnown(r, kept) ==
  /\ dict' = [c \in Clusters |-> IF c \in config.enabled THEN r ELSE kept[c]]
  /\ poller' = [c \in Clusters |-> [l \in Loads |->
                  IF l = r /\ c \in config.enabled /\ kept[c] = NoLoad THEN "starting" ELSE poller[c][l]]]
  /\ built' = [built EXCEPT ![r] = config.ver]
  /\ change' = [change EXCEPT ![r] = [stage |-> "starting", todo |-> {}]]
  /\ UNCHANGED <<config, chosen, lasting>>

\* load_config, load_clusters and the first steps of start_all.
Load(r, kept) ==
  /\ dict' = [c \in Clusters |-> IF c \in config.enabled THEN r ELSE kept[c]]
  /\ poller' = [c \in Clusters |-> [l \in Loads |->
                  IF l = r /\ c \in config.enabled THEN "starting" ELSE poller[c][l]]]
  /\ built' = [built EXCEPT ![r] = config.ver]
  /\ change' = [change EXCEPT ![r] = [stage |-> "starting", todo |-> {}]]
  /\ UNCHANGED <<config, chosen, lasting>>

\* Without adapters nothing is awaited between the clear and the load.
ClearAndLoad(r) ==
  /\ change[r].stage = "stopping" /\ change[r].todo = {} /\ AdapterObjs = {}
  /\ Load(r, [c \in Clusters |-> NoLoad])

\* Variant: the adapters' dictionary is not cleared.
AdaptersAndLoad_Mutant(r) ==
  /\ change[r].stage = "adapters" /\ change[r].todo = {}
  /\ Load(r, dict)

\* self.adapters.clear(), and the load; Clusters loaded meanwhile by another
\* request stay.
AdaptersAndLoad(r) ==
  /\ change[r].stage = "adapters" /\ change[r].todo = {}
  /\ Load(r, [c \in Clusters |-> IF c \in Esxi THEN NoLoad ELSE dict[c]])

\* start_all is through, whatever became of the objects.
Finish(r) ==
  /\ change[r].stage = "starting"
  /\ \A c \in Clusters : poller[c][r] \notin {"starting", "halted"}
  /\ change' = [change EXCEPT ![r].stage = "done"]
  /\ UNCHANGED <<config, dict, poller, built, chosen, lasting>>

-----------------------------------------------------------------------------
(* The page.                                                               *)

Choose(c) ==
  /\ chosen # c /\ c \in Known /\ chosen' = c
  /\ UNCHANGED <<config, dict, poller, built, change, lasting>>

\* A snapshot comes, of a broadcast, a new socket or a refresh, and does not have
\* the cluster that is chosen.
Reset ==
  /\ chosen # All /\ Known # {} /\ chosen \notin Known
  /\ chosen' = All
  /\ UNCHANGED <<config, dict, poller, built, change, lasting>>

-----------------------------------------------------------------------------
RosterInit ==
  /\ \E enabled \in SUBSET Clusters :
       /\ config = [ver |-> 0, enabled |-> enabled]
       /\ lasting = enabled
       /\ dict = [c \in Clusters |-> IF c \in enabled THEN FirstLoad ELSE NoLoad]
       /\ poller = [c \in Clusters |-> [l \in Loads |->
                      IF l = FirstLoad /\ c \in enabled THEN "starting" ELSE "none"]]
  /\ built = [l \in Loads |-> 0]
  /\ change = [r \in Requests |-> [stage |-> "idle", todo |-> {}]]
  /\ chosen = All

StopNext(r) == \E c \in Clusters, l \in Loads : StopOne(r, c, l)
Reload(r) == StopNext(r) \/ Clear(r) \/ ClearAndLoad(r) \/ AdaptersAndLoad(r) \/ Finish(r)

RosterNext ==
  \/ \E r \in Requests : Update(r) \/ Reload(r)
  \/ \E c \in Clusters, l \in Loads : Started(c, l)
  \/ \E c \in Clusters : Choose(c)
  \/ Reset

RosterSpec == RosterInit /\ [][RosterNext]_rosterVars

\* Requests go on and fetches end, by an answer or by their timeout.
RosterFairSpec ==
  /\ RosterSpec
  /\ \A r \in Requests : WF_rosterVars(Reload(r))
  /\ \A c \in Clusters, l \in Loads : WF_rosterVars(Started(c, l))

-----------------------------------------------------------------------------
(* Types of the state. *)
RosterTypeOK ==
  /\ config \in [ver : 0..Cardinality(Requests), enabled : SUBSET Clusters]
  /\ dict \in [Clusters -> Loads \cup {NoLoad}]
  /\ poller \in [Clusters -> [Loads -> PollerStates]]
  /\ built \in [Loads -> 0..Cardinality(Requests)]
  /\ change \in [Requests -> [stage : ReloadStages, todo : SUBSET (Clusters \X Loads)]]
  /\ chosen \in Clusters \cup {All} /\ lasting \subseteq Clusters

Quiet == \A r \in Requests : change[r].stage \in {"idle", "starting", "done"}

(* "Stop all clusters and reload from fresh config": when no request has anything
   left to stop, the roster has exactly the clusters that the file enables, each
   built from the latest version and not stopped, however the requests overlapped. *)
RosterMatches ==
  Quiet => \A c \in Clusters :
    IF c \in config.enabled
    THEN /\ dict[c] \in Loads /\ built[dict[c]] = config.ver
         /\ poller[c][dict[c]] \in {"starting", "polling"}
    ELSE dict[c] = NoLoad

\* The object that load l made of cluster c polls, or is about to.
Polls(c, l) == poller[c][l] \in {"starting", "polling"}

(* No cluster is polled by an object that no later request will stop. *)
NoStrayPoller == Quiet => \A c \in Clusters, l \in Loads : Polls(c, l) => dict[c] = l

(* Every cluster that stays enabled comes to be polled for good. *)
AllPolled == <>[](\A c \in config.enabled : dict[c] \in Loads /\ poller[c][dict[c]] = "polling")

(* "Selected cluster no longer exists": the page gives its choice up only when a
   version has disabled it, or in the time a reload takes to stop the adapters. *)
ChoiceLostOnlyInReload ==
  [][chosen # All /\ chosen' = All
       => chosen \notin lasting \/ \E r \in Requests : change[r].stage = "adapters"]_rosterVars

(* The same without the exception. *)
ChoiceKept == [][chosen # All /\ chosen' = All => chosen \notin lasting]_rosterVars
=============================================================================
